---- MODULE Spec2Model ----
(***************************************************************************)
(* Talktrace backend: the secure meeting-artifact pipeline.                *)
(*                                                                         *)
(* The model follows server.js (HTTP handlers), pipeline_manager.js        *)
(* (ingestRecording, processMeeting, getArtifactStream,                    *)
(* saveTranscriptRevision) and database.js (the three tables).             *)
(*                                                                         *)
(* Granularity.  Node runs one continuation at a time; a handler can be    *)
(* interleaved with others only at an await.  The sqlite handle executes   *)
(* statements in submission order, so a statement takes effect in the      *)
(* step of the continuation that submits it.  One action of the model is   *)
(* therefore one continuation together with the database or file          *)
(* operation it starts; what a handler read earlier is kept in the         *)
(* handler's own context (and may be stale when it is used).               *)
(***************************************************************************)
EXTENDS Integers, Sequences, FiniteSets, Bags, TLC

\* ------------------------------------------------------------------ bounds
MaxPolls == 2         \* status handlers of one meeting waiting on the provider
MaxRetries == 1       \* POST /retry requests accepted in one behaviour
MaxEdits == 1         \* POST /edit requests accepted in one behaviour
MaxInFlight == 2      \* handlers and background tasks running at the same time

\* Meetings are independent of each other (every statement is keyed by the
\* meeting id), so one bot id is followed.  Users are interchangeable: alice
\* is the one who joins, bob any other authenticated user.
MeetingIds == {1}
Users == {"alice", "bob"}
Joiners == {"alice"}
Texts == {"t1", "t2"}            \* transcript texts a client types in an edit
Recognised == "t1"               \* the text the transcriber returns for the audio
SummaryText == "s1"              \* the summary sentence the summarizer returns

\* ------------------------------------------------------- values of the code
\* terminalStates of the status handler
TerminalStates == {"done", "fatal", "error", "payment_required"}
RawStatuses == {"in_call_recording"} \cup TerminalStates

\* What is known of the provider's side of a bot: "open" while nothing is
\* settled, "ready" once it has answered with a download URL, "dead" once it
\* has answered a terminal raw status without one.
BotPhases == {"open", "ready", "dead"}

ProcessStates ==
    {"initializing", "downloading", "downloaded", "transcribing", "completed", "failed"}

Kinds == {"audio", "transcript", "summary"}

\* A meeting row that does not exist (getMeeting resolves undefined).
NoPathValue == "none"
NoPaths == [k \in Kinds |-> NoPathValue]
Absent ==
    [exists |-> FALSE, user_id |-> "none", process_state |-> "none",
     file_paths |-> NoPaths, active_version |-> 0]

\* The data key and file IV generateKeyIV draws are one fresh pair; the model
\* names the pair by a number, 0 meaning that no key record is stored.
NoKey == 0

\* A byte string: fmt tells how it was produced, text what it carries.
\*   raw               the text itself                     (Buffer.from(newText))
\*   json_transcript   JSON.stringify({text, segments})
\*   json_summary      JSON.stringify({summary, actions})
\*   mp3               the transcoded audio
Bytes(fmt, text) == [fmt |-> fmt, text |-> text]
NoBytes == Bytes("none", "none")
GarbledBytes == Bytes("garbled", "none")
Mp3Bytes == Bytes("mp3", "audio")

\* A vault file: the key it was encrypted under and its plaintext.
NoFile == [key |-> NoKey, plain |-> NoBytes]
File(k, b) == [key |-> k, plain |-> b]

\* calculateHash: SHA-256 is modelled as collision free, the hash of a byte
\* string is the byte string tagged.
calculateHash(b) == [sha256 |-> b]

\* storage_vault paths (path.join(AUDIO_DIR, ...), path.join(DATA_DIR, ...)).
VaultPath(id, kind) == IF kind = "audio" THEN "storage_vault/audio" ELSE "storage_vault/data"

\* ---------------------------------------------------------------- variables
VARIABLES
    meetings,     \* table meetings: id -> row or Absent
    keys,         \* table meeting_keys: id -> key pair number or NoKey
    revisions,    \* table transcript_revisions: sequence of rows, in insertion order
    files,        \* the vault: id -> kind -> file (head files and audio)
    bot,          \* the bot provider: id -> phase of the bot
    polling,      \* id -> number of status handlers awaiting getBotStatus
    ingests,      \* bag of background download/ingest tasks
    procs,        \* bag of processMeeting tasks
    edits,        \* bag of /edit handlers in flight
    checkouts,    \* bag of /checkout handlers in flight
    nextKey,      \* number of key pairs generated so far
    temp,         \* id -> whether <tmpdir>/<id>_temp.mp3 (decrypted audio) exists
    keyRow,       \* a meeting_keys row column by column, as it is on disk
    written,      \* history: what storeMeetingKey was given and the row it wrote
    unwrapped,    \* the last getMeetingKey: the row read, what was stored, the result
    wire,         \* the deliveries sent: header and body of each, in order
    drawn,        \* number of crypto.randomBytes values drawn by the two layers
    normalised,   \* the last getBotStatus: the provider's bot object and the answer
    formatted,    \* the last formatPEM: the header text given and the text returned
    summarised,   \* the last runSummary: what the engine did and the answer
    resp,         \* the last HTTP response sent
    hist          \* history: what has happened to each meeting id

vars ==
    <<meetings, keys, revisions, files, bot, polling, ingests, procs, edits,
      checkouts, nextKey, temp, keyRow, written, unwrapped, wire, drawn,
      normalised, formatted, summarised, resp, hist>>

\* The state of the key-wrap and transport layers.
cryptoVars == <<keyRow, written, unwrapped, wire, drawn>>

\* What the adapters and normalising functions were last applied to.
pureVars == <<normalised, formatted, summarised>>

\* ------------------------------------------------------------------ helpers
Put(bag, t) == bag (+) SetToBag({t})
Take(bag, t) == bag (-) SetToBag({t})

Exists(id) == meetings[id].exists

\* Handlers and background tasks that are suspended at an await.  A request
\* is taken up while fewer than MaxInFlight of them are: its handler is one more.
InFlight ==
    LET Sum[S \in SUBSET MeetingIds] ==
            IF S = {} THEN 0
            ELSE LET i == CHOOSE i \in S : TRUE IN polling[i] + Sum[S \ {i}]
    IN  Sum[MeetingIds] + BagCardinality(ingests) + BagCardinality(procs)
          + BagCardinality(edits) + BagCardinality(checkouts)

\* The meetings array of a listing answer: meeting id -> status.
NoList == <<>>

Response(op, user, id, code, status, bytes, version) ==
    [op |-> op, user |-> user, id |-> id, code |-> code, status |-> status,
     bytes |-> bytes, version |-> version,
     after_delete |-> hist.deleted[id], owner |-> hist.owner[id], list |-> NoList,
     kind |-> "none"]

NoResponse ==
    [op |-> "none", user |-> "none", id |-> 0, code |-> 0, status |-> "none",
     bytes |-> NoBytes, version |-> 0, after_delete |-> FALSE, owner |-> "none",
     list |-> NoList, kind |-> "none"]

\* Rows of transcript_revisions of one meeting and kind, in insertion order.
RevisionsOf(id, kind) ==
    SelectSeq(revisions, LAMBDA r : r.meeting_id = id /\ r.type = kind)

VersionsOf(id, kind) ==
    {revisions[i].version : i \in {j \in DOMAIN revisions :
        revisions[j].meeting_id = id /\ revisions[j].type = kind}}

SetMax(S) == CHOOSE x \in S : \A y \in S : y <= x

\* ------------------------------------------------------------ database.js
\* updateProcessState(id, state[, file_paths]): UPDATE meetings ... WHERE id = ?
\* changes nothing when the row does not exist.
updateProcessState(id, state) ==
    IF meetings[id].exists
    THEN [meetings EXCEPT ![id].process_state = state]
    ELSE meetings

updateProcessStatePaths(id, state, paths) ==
    IF meetings[id].exists
    THEN [meetings EXCEPT ![id].process_state = state, ![id].file_paths = paths]
    ELSE meetings

\* A storeMeetingKey that writes no row.
storeMeetingKeyDropped(id, k) == keys

\* storeMeetingKey: INSERT OR REPLACE INTO meeting_keys (no foreign-key
\* enforcement is switched on, so the row is written whether or not the
\* meeting row exists).
storeMeetingKey(id, k) == [keys EXCEPT ![id] = k]

\* addRevision / the INSERT of processMeeting: a new row with the next rowid.
addRevision(id, version, hash, path, kind) ==
    Append(revisions,
        [id |-> hist.rev_seq + 1, meeting_id |-> id, version |-> version,
         content_hash |-> hash, file_path |-> path, type |-> kind])

\* getLatestVersion: SELECT MAX(version); MAX over no rows is NULL, and the
\* caller's NULL + 1 is 1, so NULL is modelled as 0.
getLatestVersion(id, kind) ==
    IF VersionsOf(id, kind) = {} THEN 0 ELSE SetMax(VersionsOf(id, kind))

\* deleteMeeting: three DELETE statements queued in one synchronous block.
KeysAfterDelete(id) == [keys EXCEPT ![id] = NoKey]
RevisionsAfterDelete(id) == SelectSeq(revisions, LAMBDA r : r.meeting_id # id)
\* A deleteMeeting whose DELETE FROM meetings removes nothing.
MeetingsKept(id) == meetings

MeetingsAfterDelete(id) == [meetings EXCEPT ![id] = Absent]

deleteMeeting(id) ==
    /\ keys' = KeysAfterDelete(id)
    /\ revisions' = RevisionsAfterDelete(id)
    /\ meetings' = MeetingsAfterDelete(id)

\* --------------------------------------------------------------------- Init
\* No row of meeting_keys; what getMeetingKey resolves to or rejects with;
\* no getMeetingKey call yet.
NoRow == [meeting_id |-> 0]
KeyResult(error, key, iv) == [error |-> error, key |-> key, iv |-> iv]
NotAsked == [row |-> NoRow, given |-> NoRow, result |-> KeyResult("not asked", "none", "none")]

\* ------------------------------------------- the provider's bot object
\* JavaScript's null and undefined, and the empty string: all falsy.
Null == "null"

\* media_shortcuts of a recording, in the order getBotStatus asks for them.
ShortcutKeys ==
    <<"audio_mixed_raw", "audio_mixed_mp3", "audio", "audio_hq", "audio_mixed",
      "video_mixed">>
ShortcutKeySet == {ShortcutKeys[i] : i \in DOMAIN ShortcutKeys}

\* A media shortcut: absent, or an object whose data.download_url is a URL or
\* null (the medium is not ready).  The URL of shortcut k is written k.
NoShortcut == [present |-> FALSE, download_url |-> Null]
Shortcut(url) == [present |-> TRUE, download_url |-> url]

\* A recording and its media_shortcuts (which may be missing altogether).
NoShortcuts == [k \in ShortcutKeySet |-> NoShortcut]
Recording(has, shortcuts) == [has_shortcuts |-> has, media_shortcuts |-> shortcuts]

\* The bot object as GET /bot/:id returns it.
BotObject(status, changes, recordings, video_url) ==
    [status |-> status, status_changes |-> changes, recordings |-> recordings,
     video_url |-> video_url]
NoBot == BotObject(Null, <<>>, <<>>, Null)

\* The answer of getBotStatus.
BotStatus(status, ready, url, raw) ==
    [status |-> status, audio_ready |-> ready, audio_url |-> url, raw_status |-> raw]
NotNormalised == [bot |-> NoBot, answer |-> BotStatus("not asked", FALSE, Null, Null)]

\* The answer of runSummary: settled with a summary, or never settled.
SummaryAnswer(settled, summary) == [settled |-> settled, summary |-> summary]
NotSummarised == [id |-> 0, engine |-> "none", answer |-> SummaryAnswer(FALSE, "none")]

\* A header text is a sequence of characters; nothing was formatted yet.
NotFormatted == [text |-> <<>>, pem |-> <<>>, thrown |-> FALSE, asked |-> FALSE]

Init ==
    /\ meetings = [id \in MeetingIds |-> Absent]
    /\ keys = [id \in MeetingIds |-> NoKey]
    /\ revisions = <<>>
    /\ files = [id \in MeetingIds |-> [k \in Kinds |-> NoFile]]
    /\ bot = [id \in MeetingIds |-> "open"]
    /\ polling = [id \in MeetingIds |-> 0]
    /\ ingests = EmptyBag
    /\ procs = EmptyBag
    /\ edits = EmptyBag
    /\ checkouts = EmptyBag
    /\ nextKey = 0
    /\ temp = [id \in MeetingIds |-> FALSE]
    /\ keyRow = NoRow
    /\ written = NoRow
    /\ unwrapped = NotAsked
    /\ wire = <<>>
    /\ drawn = 0
    /\ normalised = NotNormalised
    /\ formatted = NotFormatted
    /\ summarised = NotSummarised
    /\ resp = NoResponse
    /\ hist = [deleted |-> [id \in MeetingIds |-> FALSE],
               discarded |-> [id \in MeetingIds |-> FALSE],
               dispatched |-> [id \in MeetingIds |-> 0],
               owner |-> [id \in MeetingIds |-> "none"],
               rev_seq |-> 0,
               retries |-> 0,
               edits |-> 0]

\* ------------------------------------------------------- the bot provider
\* The provider is outside the repository.  A bot id is answered with a raw
\* status and, once a recording exists, a download URL.  A terminal raw state
\* means that no further progress is possible, and a URL once given stays.
ProviderAnswers(id, raw, ready) ==
    CASE bot[id] = "open" -> TRUE
      [] bot[id] = "ready" -> ready
      [] bot[id] = "dead" -> raw \in TerminalStates /\ ~ready

PhaseAfter(raw, ready) ==
    IF ready THEN "ready"
    ELSE IF raw \in TerminalStates THEN "dead" ELSE "open"

\* ------------------------------------------------------------ POST /api/join
\* joinMeeting gives a new bot id; addMeeting inserts the row as initializing.
Join(u) ==
    \E id \in MeetingIds :
        /\ hist.owner[id] = "none"
        /\ \A j \in MeetingIds : j < id => hist.owner[j] # "none"
        /\ meetings' = [meetings EXCEPT ![id] =
              [exists |-> TRUE, user_id |-> u, process_state |-> "initializing",
               file_paths |-> NoPaths, active_version |-> 0]]
        /\ hist' = [hist EXCEPT !.owner[id] = u]
        /\ resp' = [Response("join", u, id, 200, "joined", NoBytes, 0) EXCEPT !.owner = u]
        /\ UNCHANGED <<keys, revisions, files, bot, polling, ingests, procs, edits,
                       checkouts, nextKey, temp, cryptoVars, pureVars>>

\* ------------------------------------------------- GET /api/status/:meeting_id
\* Head paths the pipeline registers in file_paths.
AudioPath == "storage_vault/audio/<id>.enc"
TranscriptPath == "storage_vault/data/<id>_transcript.enc"
SummaryPath == "storage_vault/data/<id>_summary.enc"
InternalStorage == "internal_storage"

\* A status handler that answers the raw process state.
uiStatusRaw(state) == state

\* uiStatus of the status handler: 'complete' for process state 'completed'.
uiStatus(state) == IF state = "completed" THEN "complete" ELSE state

\* The ownership check most handlers start with: 404 for no row, 403 for a
\* row of another user; 0 when the request passes.
OwnerCheck(u, id) ==
    IF ~meetings[id].exists THEN 404
    ELSE IF meetings[id].user_id # u THEN 403
    ELSE 0

\* Whether the stale record of a handler that passed `process_state ===
\* 'initializing'` and the provider's answer make the handler start ingestion.
ShouldIngest(ready, recordState) == ready /\ recordState = "initializing"

\* Whether the provider's answer makes the handler discard the meeting.
ShouldDiscard(raw, ready) == raw \in TerminalStates /\ ~ready

\* A status handler that asks the provider whatever the record says.
PollStartAsking(u, id) ==
    /\ hist.owner[id] # "none"
    /\ InFlight < MaxInFlight
    /\ LET code == OwnerCheck(u, id) IN
        IF code # 0
        THEN /\ resp' = Response("status", u, id, code, "error", NoBytes, 0)
             /\ UNCHANGED polling
        ELSE /\ polling[id] < MaxPolls
             /\ polling' = [polling EXCEPT ![id] = @ + 1]
             /\ resp' = NoResponse
    /\ UNCHANGED <<meetings, keys, revisions, files, bot, ingests, procs, edits,
                   checkouts, nextKey, temp, cryptoVars, pureVars, hist>>

\* getMeeting, the ownership check and the answer from the local record; a
\* record still initializing sends the handler to the provider (getBotStatus).
PollStart(u, id) ==
    /\ hist.owner[id] # "none"
    /\ InFlight < MaxInFlight
    /\ LET code == OwnerCheck(u, id) IN
        IF code # 0
        THEN /\ resp' = Response("status", u, id, code, "error", NoBytes, 0)
             /\ UNCHANGED polling
        ELSE IF meetings[id].process_state # "initializing"
        THEN /\ resp' = Response("status", u, id, 200,
                            uiStatus(meetings[id].process_state), NoBytes, 0)
             /\ UNCHANGED polling
        ELSE /\ polling[id] < MaxPolls
             /\ polling' = [polling EXCEPT ![id] = @ + 1]
             /\ resp' = NoResponse
    /\ UNCHANGED <<meetings, keys, revisions, files, bot, ingests, procs, edits,
                   checkouts, nextKey, temp, cryptoVars, pureVars, hist>>

\* The continuation after getBotStatus: the record it holds was read by
\* PollStart before the await and said initializing, or the handler would
\* have answered from the record.
PolledRecordState == "initializing"

NewIngest(id) == [pc |-> "download", id |-> id, key |-> NoKey, overlap |-> FALSE]

PollBotStatus(id) ==
    /\ polling[id] > 0
    /\ polling' = [polling EXCEPT ![id] = @ - 1]
    /\ \E raw \in RawStatuses, ready \in BOOLEAN :
        /\ ProviderAnswers(id, raw, ready)
        /\ bot' = [bot EXCEPT ![id] = PhaseAfter(raw, ready)]
        /\ LET u == hist.owner[id] IN
            IF ShouldDiscard(raw, ready)
            THEN /\ deleteMeeting(id)
                 /\ hist' = [hist EXCEPT !.deleted[id] = TRUE, !.discarded[id] = TRUE]
                 /\ resp' = Response("status", u, id, 200, "discarded", NoBytes, 0)
                 /\ UNCHANGED ingests
            ELSE IF ShouldIngest(ready, PolledRecordState)
            THEN /\ meetings' = updateProcessState(id, "downloading")
                 /\ ingests' = Put(ingests, NewIngest(id))
                 /\ hist' = [hist EXCEPT !.dispatched[id] = @ + 1]
                 /\ resp' = Response("status", u, id, 200, "processed", NoBytes, 0)
                 /\ UNCHANGED <<keys, revisions>>
            ELSE /\ resp' = Response("status", u, id, 200, "processing", NoBytes, 0)
                 /\ UNCHANGED <<meetings, keys, revisions, ingests, hist>>
    /\ UNCHANGED <<files, procs, edits, checkouts, nextKey, temp, cryptoVars, pureVars>>

\* getBotStatus rejects (provider HTTP error): the handler answers 500.
PollProviderError(id) ==
    /\ polling[id] > 0
    /\ polling' = [polling EXCEPT ![id] = @ - 1]
    /\ resp' = Response("status", hist.owner[id], id, 500, "error", NoBytes, 0)
    /\ UNCHANGED <<meetings, keys, revisions, files, bot, ingests, procs, edits,
                   checkouts, nextKey, temp, cryptoVars, pureVars, hist>>

\* ------------------------------ background ingestion (server.js, ingestRecording)
PartialBytes == Bytes("partial", "none")
PartialFile == File(NoKey, PartialBytes)
GarbledFile == File(NoKey, GarbledBytes)

\* getDecryptedStream: AES-256-CBC decryption of a file under a key pair gives
\* the plaintext only for the pair the file was written with.
Decrypt(f, k) == IF f.key = k /\ k # NoKey THEN f.plain ELSE GarbledBytes

Ingesting(id, pc) == {t \in BagToSet(ingests) : t.id = id /\ t.pc = pc}

\* The bag with every task that is writing audio/<id>.enc marked as
\* overlapped by another writer.
MarkOverlapped(bag, id) ==
    LET S == BagToSet(bag)
        Marked(x) == IF x.id = id /\ x.pc = "encrypting"
                     THEN [x EXCEPT !.overlap = TRUE] ELSE x
        Clear(y) == [y EXCEPT !.overlap = FALSE]
    IN  [y \in {Marked(x) : x \in S} |->
            (IF y \in S THEN bag[y] ELSE 0)
              + (IF y.overlap /\ Clear(y) \in S /\ Marked(Clear(y)) = y
                 THEN bag[Clear(y)] ELSE 0)]

\* The catch of the background block: updateProcessState(meeting_id, 'failed').
IngestFail(t) ==
    /\ BagIn(t, ingests)
    /\ t.pc \in {"download", "encrypting"}
    /\ ingests' = Take(ingests, t)
    /\ meetings' = updateProcessState(t.id, "failed")
    /\ resp' = NoResponse
    /\ UNCHANGED <<keys, revisions, files, bot, polling, procs, edits, checkouts,
                   nextKey, temp, cryptoVars, pureVars, hist>>

\* downloadAudio resolved: ingestRecording draws a key pair (generateKeyIV)
\* and starts the transcode and the encrypting write of audio/<id>.enc; the
\* write stream truncates the file when it opens.  Two writers of one path
\* overlap when one opens the file while the other is still writing.
IngestDownload(t) ==
    /\ BagIn(t, ingests)
    /\ t.pc = "download"
    /\ nextKey' = nextKey + 1
    /\ LET others == Ingesting(t.id, "encrypting")
           mine == [t EXCEPT !.pc = "encrypting", !.key = nextKey + 1,
                             !.overlap = (others # {})]
       IN  /\ ingests' = Put(MarkOverlapped(Take(ingests, t), t.id), mine)
           /\ files' = [files EXCEPT ![t.id]["audio"] = PartialFile]
    /\ resp' = NoResponse
    /\ UNCHANGED <<meetings, keys, revisions, bot, polling, procs, edits, checkouts,
                   temp, cryptoVars, pureVars, hist>>

\* What audio/<id>.enc holds when a writer finishes.  While another writer
\* is still writing the path the file stays partial; a writer whose write
\* overlapped another's leaves its own ciphertext or a mix of both.
AudioWritten(t) ==
    IF Ingesting(t.id, "encrypting") # {t} \/ ingests[t] > 1
    THEN {PartialFile}
    ELSE IF t.overlap
    THEN {File(t.key, Mp3Bytes), GarbledFile}
    ELSE {File(t.key, Mp3Bytes)}

\* encryptStreamToFile resolved; ingestRecording then stores the key record.
IngestEncrypted(t) ==
    /\ BagIn(t, ingests)
    /\ t.pc = "encrypting"
    /\ \E f \in AudioWritten(t) : files' = [files EXCEPT ![t.id]["audio"] = f]
    /\ keys' = storeMeetingKey(t.id, t.key)
    /\ ingests' = Put(Take(ingests, t), [t EXCEPT !.pc = "keyStored"])
    /\ resp' = NoResponse
    /\ UNCHANGED <<meetings, revisions, bot, polling, procs, edits, checkouts,
                   nextKey, temp, cryptoVars, pureVars, hist>>

\* storeMeetingKey resolved: updateProcessState(meetingId, 'downloaded').
IngestKeyStored(t) ==
    /\ BagIn(t, ingests)
    /\ t.pc = "keyStored"
    /\ meetings' = updateProcessState(t.id, "downloaded")
    /\ ingests' = Put(Take(ingests, t), [t EXCEPT !.pc = "stateSet"])
    /\ resp' = NoResponse
    /\ UNCHANGED <<keys, revisions, files, bot, polling, procs, edits, checkouts,
                   nextKey, temp, cryptoVars, pureVars, hist>>

\* processMeeting is called; it runs to its first await, which submits
\* updateProcessState(meetingId, 'transcribing').
NewProc(id) == [pc |-> "getKey", id |-> id, key |-> NoKey]

StartProcessing(id) ==
    /\ meetings' = updateProcessState(id, "transcribing")
    /\ procs' = Put(procs, NewProc(id))

IngestStateSet(t) ==
    /\ BagIn(t, ingests)
    /\ t.pc = "stateSet"
    /\ StartProcessing(t.id)
    /\ ingests' = Take(ingests, t)
    /\ resp' = NoResponse
    /\ UNCHANGED <<keys, revisions, files, bot, polling, edits, checkouts,
                   nextKey, temp, cryptoVars, pureVars, hist>>

\* ------------------------------------------------- processMeeting (a task)
\* The catch of processMeeting: updateProcessState(meetingId, 'failed').
ProcFailed(t) ==
    /\ procs' = Take(procs, t)
    /\ meetings' = updateProcessState(t.id, "failed")

\* getMeetingKey resolved.  Destructuring null throws (no key record), and
\* getDecryptedStream throws when audio/<id>.enc does not exist; otherwise the
\* audio is decrypted to the temp file <tmpdir>/<id>_temp.mp3 and the
\* transcriber is started.
ProcGetKey(t) ==
    /\ BagIn(t, procs)
    /\ t.pc = "getKey"
    /\ IF keys[t.id] = NoKey \/ files[t.id]["audio"] = NoFile
       THEN ProcFailed(t) /\ UNCHANGED temp
       ELSE /\ procs' = Put(Take(procs, t), [t EXCEPT !.pc = "whisper", !.key = keys[t.id]])
            /\ temp' = [temp EXCEPT ![t.id] = TRUE]
            /\ UNCHANGED meetings
    /\ resp' = NoResponse
    /\ UNCHANGED <<keys, revisions, files, bot, polling, ingests, edits, checkouts,
                   nextKey, cryptoVars, pureVars, hist>>

\* JSON.stringify(transcriptJson) of the transcript the transcriber returned.
TranscriptJson(text) == Bytes("json_transcript", text)
SummaryJson(summary) == Bytes("json_summary", summary)

\* processMeeting, "3. Hash and Versioning": the hash is taken over the whole
\* JSON string and the row is inserted as version 1.
ProcRevisionVersion(id) == 1
ProcRevisionHash(text) == calculateHash(TranscriptJson(text))

\* runWhisper resolved with a transcript: the temp audio is unlinked
\* ("Cleanup Temp Audio IMMEDIATELY"), the revision row is inserted (not
\* awaited) and the head transcript is written under the task's key.
ProcWhisper(t) ==
    /\ BagIn(t, procs)
    /\ t.pc = "whisper"
    /\ Decrypt(files[t.id]["audio"], t.key) = Mp3Bytes
    /\ revisions' = addRevision(t.id, ProcRevisionVersion(t.id),
                        ProcRevisionHash(Recognised), InternalStorage, "transcript")
    /\ files' = [files EXCEPT ![t.id]["transcript"] = File(t.key, TranscriptJson(Recognised))]
    /\ hist' = [hist EXCEPT !.rev_seq = @ + 1]
    /\ procs' = Put(Take(procs, t), [t EXCEPT !.pc = "summary"])
    /\ temp' = [temp EXCEPT ![t.id] = FALSE]
    /\ resp' = NoResponse
    /\ UNCHANGED <<meetings, keys, bot, polling, ingests, edits, checkouts,
                   nextKey, cryptoVars, pureVars>>

\* runSummary resolved (it falls back to a mock and never rejects): the head
\* summary is written.
ProcSummary(t) ==
    /\ BagIn(t, procs)
    /\ t.pc = "summary"
    /\ files' = [files EXCEPT ![t.id]["summary"] = File(t.key, SummaryJson(SummaryText))]
    /\ procs' = Put(Take(procs, t), [t EXCEPT !.pc = "complete"])
    /\ resp' = NoResponse
    /\ UNCHANGED <<meetings, keys, revisions, bot, polling, ingests, edits,
                   checkouts, nextKey, temp, cryptoVars, pureVars, hist>>

\* "Complete": updateProcessState(meetingId, 'completed', {audio, transcript,
\* summary}, durationSeconds).
CompletedPaths ==
    [k \in Kinds |->
        IF k = "audio" THEN AudioPath
        ELSE IF k = "transcript" THEN TranscriptPath ELSE SummaryPath]

ProcComplete(t) ==
    /\ BagIn(t, procs)
    /\ t.pc = "complete"
    /\ meetings' = updateProcessStatePaths(t.id, "completed", CompletedPaths)
    /\ procs' = Take(procs, t)
    /\ resp' = NoResponse
    /\ UNCHANGED <<keys, revisions, files, bot, polling, ingests, edits, checkouts,
                   nextKey, temp, cryptoVars, pureVars, hist>>

\* The transcriber rejects, or a write of a head file fails.
ProcError(t) ==
    /\ BagIn(t, procs)
    /\ t.pc \in {"whisper", "summary"}
    /\ ProcFailed(t)
    /\ resp' = NoResponse
    /\ UNCHANGED <<keys, revisions, files, bot, polling, ingests, edits, checkouts,
                   nextKey, temp, cryptoVars, pureVars, hist>>

\* The decipher stream of the temp-file copy emits 'error' when the audio
\* file is not a complete ciphertext of the task's key; nothing listens to
\* it, so the process exits and every handler and task in flight is lost.
\* The tables and the vault stay as they are.
ProcessExit ==
    /\ polling' = [id \in MeetingIds |-> 0]
    /\ ingests' = EmptyBag
    /\ procs' = EmptyBag
    /\ edits' = EmptyBag
    /\ checkouts' = EmptyBag

ProcCrash(t) ==
    /\ BagIn(t, procs)
    /\ t.pc = "whisper"
    /\ Decrypt(files[t.id]["audio"], t.key) # Mp3Bytes
    /\ ProcessExit
    /\ resp' = NoResponse
    /\ UNCHANGED <<meetings, keys, revisions, files, bot, nextKey, temp, cryptoVars, pureVars, hist>>

\* ---------------------------------------------------- POST /api/retry/:id
\* getMeeting, the ownership check, then resumeProcessing (= processMeeting)
\* without any check of the process state.
Retry(u, id) ==
    /\ hist.owner[id] # "none"
    /\ InFlight < MaxInFlight
    /\ hist.retries < MaxRetries
    /\ LET code == OwnerCheck(u, id) IN
        IF code # 0
        THEN /\ resp' = Response("retry", u, id, code, "error", NoBytes, 0)
             /\ UNCHANGED <<meetings, procs, hist>>
        ELSE /\ StartProcessing(id)
             /\ hist' = [hist EXCEPT !.retries = @ + 1]
             /\ resp' = Response("retry", u, id, 200, "started", NoBytes, 0)
    /\ UNCHANGED <<keys, revisions, files, bot, polling, ingests, edits, checkouts,
                   nextKey, temp, cryptoVars, pureVars>>

\* -------------------------------------------------- DELETE /api/meeting/:id
Delete(u, id) ==
    /\ hist.owner[id] # "none"
    /\ InFlight < MaxInFlight
    /\ LET code == OwnerCheck(u, id) IN
        IF code # 0
        THEN /\ resp' = Response("delete", u, id, code, "error", NoBytes, 0)
             /\ UNCHANGED <<meetings, keys, revisions, hist>>
        ELSE /\ deleteMeeting(id)
             /\ hist' = [hist EXCEPT !.deleted[id] = TRUE]
             /\ resp' = Response("delete", u, id, 200, "deleted", NoBytes, 0)
    /\ UNCHANGED <<files, bot, polling, ingests, procs, edits, checkouts, nextKey, temp, cryptoVars, pureVars>>

\* ------------------------------------------------------------ POST /api/leave
\* leaveMeeting(meeting_id) is called for whoever asks: the handler reads no
\* meeting row.
Leave(u, id) ==
    /\ hist.owner[id] # "none"
    /\ InFlight < MaxInFlight
    /\ resp' = Response("leave", u, id, 200, "left", NoBytes, 0)
    /\ UNCHANGED <<meetings, keys, revisions, files, bot, polling, ingests, procs,
                   edits, checkouts, nextKey, temp, cryptoVars, pureVars, hist>>

\* ------------------- GET /api/audio/:id, /api/data/:id/transcript|summary
\* getArtifactStream: the key record is read (destructuring null throws, the
\* handler answers 500), the head path of the kind is looked up on disk (404
\* when absent) and the decrypted stream is piped to the response.  The
\* handler reads no meeting row and checks no owner.  A file that is not a
\* complete ciphertext of the stored key makes the decipher stream fail after
\* the headers are sent (the process exits, as in ProcCrash).
HeadFile(id, kind) == files[id][kind]

getArtifactStream(id, kind) ==
    IF keys[id] = NoKey THEN [code |-> 500, bytes |-> NoBytes]
    ELSE IF HeadFile(id, kind) = NoFile THEN [code |-> 404, bytes |-> NoBytes]
    ELSE [code |-> 200, bytes |-> Decrypt(HeadFile(id, kind), keys[id])]

\* ------------------------------------------------- formatPEM, the PEM text
\* A text is a sequence of characters.  The characters that matter: the
\* double quote, the line feed, the two characters backslash and n, the
\* space, the PEM header and footer (each kept as one character), and the
\* i-th base64 character of the encoding of key k.
Char(c) == [ch |-> c, at |-> 0]
Quote == Char("quote")
Newline == Char("LF")
Escaped == Char("backslash n")
Space == Char("space")
Begin == Char("-----BEGIN PUBLIC KEY-----")
End == Char("-----END PUBLIC KEY-----")
Whitespace == {Newline, Space}

LineLength == 64   \* characters of a line of the body

ClientKeys == {"client", "client2"}   \* RSA public keys of clients
KeyLength(k) == IF k = "client" THEN 3 ELSE LineLength + 6
Base64Of(k) == [i \in 1..KeyLength(k) |-> [ch |-> k, at |-> i]]

\* body.match(/.{1,64}/g).join(sep)
RECURSIVE Chunked(_, _)
Chunked(body, sep) ==
    IF Len(body) <= LineLength THEN body
    ELSE SubSeq(body, 1, LineLength) \o <<sep>>
            \o Chunked(SubSeq(body, LineLength + 1, Len(body)), sep)

\* String.prototype.trim
RECURSIVE Trim(_)
Trim(t) ==
    IF t = <<>> THEN t
    ELSE IF t[1] \in Whitespace THEN Trim(Tail(t))
    ELSE IF t[Len(t)] \in Whitespace THEN Trim(SubSeq(t, 1, Len(t) - 1))
    ELSE t

\* body.replace(c, ''): the first occurrence only.
RemoveFirst(t, c) ==
    IF \E i \in DOMAIN t : t[i] = c
    THEN LET i == CHOOSE i \in DOMAIN t : t[i] = c /\ \A j \in 1..(i - 1) : t[j] # c
         IN  SubSeq(t, 1, i - 1) \o SubSeq(t, i + 1, Len(t))
    ELSE t

NotWhitespace(c) == c \notin Whitespace

\* A formatPEM that returns the header as it came.
formatPEMVerbatim(pem) == [pem |-> pem, thrown |-> FALSE]

\* formatPEM: a falsy header is returned as it is; else the text is trimmed,
\* surrounding quotes are dropped and escaped newlines replaced; a text of
\* several lines is returned as it is, a single line is stripped of header,
\* footer and whitespace and rebuilt as header, 64-character lines, footer.
\* An empty body makes match() return null and the join throw.
formatPEM(pem) ==
    IF pem = <<>> THEN [pem |-> pem, thrown |-> FALSE]
    ELSE LET trimmed == Trim(pem)
             unquoted == IF trimmed # <<>> /\ trimmed[1] = Quote
                              /\ trimmed[Len(trimmed)] = Quote
                         THEN SubSeq(trimmed, 2, Len(trimmed) - 1)
                         ELSE trimmed
             clean == [i \in DOMAIN unquoted |->
                          IF unquoted[i] = Escaped THEN Newline ELSE unquoted[i]]
             body == SelectSeq(RemoveFirst(RemoveFirst(clean, Begin), End),
                               NotWhitespace)
         IN  IF \E i \in DOMAIN clean : clean[i] = Newline
             THEN [pem |-> clean, thrown |-> FALSE]
             ELSE IF body = <<>> THEN [pem |-> <<>>, thrown |-> TRUE]
             ELSE [pem |-> <<Begin, Newline>> \o Chunked(body, Newline)
                               \o <<Newline, End>>,
                   thrown |-> FALSE]

\* The key crypto.publicEncrypt reads from a PEM text: a header line, the
\* lines of the body, a footer line (line feeds after it are ignored); the
\* body is the base64 encoding of the key.
NotNewline(c) == c # Newline
importKey(pem) ==
    LET t == Trim(pem)
        body == SelectSeq(SubSeq(t, 3, Len(t) - 2), NotNewline) IN
        IF /\ Len(t) >= 5
           /\ t[1] = Begin /\ t[2] = Newline
           /\ t[Len(t) - 1] = Newline /\ t[Len(t)] = End
           /\ \E k \in ClientKeys : body = Base64Of(k)
        THEN CHOOSE k \in ClientKeys : body = Base64Of(k)
        ELSE "invalid"

\* crypto.publicEncrypt accepts the key (createEncryptionSetup rethrows what
\* it throws).
ValidPublicKey(pem) == importKey(pem) \in ClientKeys

\* The forms a client sends the key k in.
Standard(k) == <<Begin, Newline>> \o Chunked(Base64Of(k), Newline) \o <<Newline, End>>
Literal(k) == <<Begin, Escaped>> \o Chunked(Base64Of(k), Escaped) \o <<Escaped, End>>
Headerless(k) == Base64Of(k)
Quoted(t) == <<Quote>> \o t \o <<Quote>>

\* Values of the X-Public-Key header: none, one that is no RSA public key
\* whatever formatPEM makes of it, and the client's key.
NoHeader == <<>>
GarbageHeader == <<Char("garbage")>>
ClientHeader == Literal("client")
PublicKeys == {NoHeader, GarbageHeader, ClientHeader}

\* 400 without the header; getArtifactStream, then createEncryptionSetup:
\* 'File not found' is answered 404 and whatever else is thrown 500.
secureDeliver(u, id, kind, header) ==
    /\ hist.owner[id] # "none"
    /\ InFlight < MaxInFlight
    /\ LET got == getArtifactStream(id, kind)
           pem == formatPEM(header).pem IN
        IF pem = NoHeader
        THEN /\ resp' = Response(kind, u, id, 400, "error", NoBytes, 0)
             /\ UNCHANGED <<polling, ingests, procs, edits, checkouts>>
        ELSE IF got.code = 200 /\ ~ValidPublicKey(pem)
        THEN /\ resp' = Response(kind, u, id, 500, "error", NoBytes, 0)
             /\ UNCHANGED <<polling, ingests, procs, edits, checkouts>>
        ELSE /\ resp' = Response(kind, u, id, got.code, "stream", got.bytes, 0)
             /\ IF got.bytes = GarbledBytes
                THEN ProcessExit
                ELSE UNCHANGED <<polling, ingests, procs, edits, checkouts>>
    /\ UNCHANGED <<meetings, keys, revisions, files, bot, nextKey, temp, cryptoVars, pureVars, hist>>

\* ----------------------------------- POST /api/edit/:id, saveTranscriptRevision
\* An edit handler that saves without looking for the key record.
EditStartUnchecked(u, id, text) ==
    /\ hist.owner[id] # "none"
    /\ InFlight < MaxInFlight
    /\ LET code == OwnerCheck(u, id) IN
        IF code # 0
        THEN /\ resp' = Response("edit", u, id, code, "error", NoBytes, 0)
             /\ UNCHANGED <<edits, hist>>
        ELSE /\ edits' = Put(edits, [pc |-> "latest", id |-> id, user |-> u,
                                     key |-> keys[id], text |-> text, version |-> 0])
             /\ hist' = [hist EXCEPT !.edits = @ + 1]
             /\ resp' = NoResponse
    /\ UNCHANGED <<meetings, keys, revisions, files, bot, polling, ingests, procs,
                   checkouts, nextKey, temp, cryptoVars, pureVars>>

\* getMeeting and the ownership check, then saveTranscriptRevision reads the
\* key record; destructuring null throws and the handler answers 500.
EditStart(u, id, text) ==
    /\ hist.owner[id] # "none"
    /\ InFlight < MaxInFlight
    /\ LET code == OwnerCheck(u, id) IN
        IF code # 0
        THEN /\ resp' = Response("edit", u, id, code, "error", NoBytes, 0)
             /\ UNCHANGED <<edits, hist>>
        ELSE IF keys[id] = NoKey
        THEN /\ resp' = Response("edit", u, id, 500, "error", NoBytes, 0)
             /\ UNCHANGED <<edits, hist>>
        ELSE /\ edits' = Put(edits, [pc |-> "latest", id |-> id, user |-> u,
                                     key |-> keys[id], text |-> text, version |-> 0])
             /\ hist' = [hist EXCEPT !.edits = @ + 1]
             /\ resp' = NoResponse
    /\ UNCHANGED <<meetings, keys, revisions, files, bot, polling, ingests, procs,
                   checkouts, nextKey, temp, cryptoVars, pureVars>>

\* getLatestVersion(meetingId) resolved: newVer = currentVer + 1.
EditLatest(t) ==
    /\ BagIn(t, edits)
    /\ t.pc = "latest"
    /\ edits' = Put(Take(edits, t),
          [t EXCEPT !.pc = "write", !.version = getLatestVersion(t.id, "transcript") + 1])
    /\ resp' = NoResponse
    /\ UNCHANGED <<meetings, keys, revisions, files, bot, polling, ingests, procs,
                   checkouts, nextKey, temp, cryptoVars, pureVars, hist>>

\* "Overwrite the Latest file": encryptBufferToFile(Buffer.from(newText), ...).
EditWrite(t) ==
    /\ BagIn(t, edits)
    /\ t.pc = "write"
    /\ files' = [files EXCEPT ![t.id]["transcript"] = File(t.key, Bytes("raw", t.text))]
    /\ edits' = Put(Take(edits, t), [t EXCEPT !.pc = "add"])
    /\ resp' = NoResponse
    /\ UNCHANGED <<meetings, keys, revisions, bot, polling, ingests, procs,
                   checkouts, nextKey, temp, cryptoVars, pureVars, hist>>

\* addRevision(meetingId, newVer, hash, 'internal_storage'), then the answer
\* {version, hash}.
EditAdd(t) ==
    /\ BagIn(t, edits)
    /\ t.pc = "add"
    /\ revisions' = addRevision(t.id, t.version, calculateHash(Bytes("raw", t.text)),
                                InternalStorage, "transcript")
    /\ hist' = [hist EXCEPT !.rev_seq = @ + 1]
    /\ edits' = Take(edits, t)
    /\ resp' = Response("edit", t.user, t.id, 200, "saved", NoBytes, t.version)
    /\ UNCHANGED <<meetings, keys, files, bot, polling, ingests, procs, checkouts,
                   nextKey, temp, cryptoVars, pureVars>>

\* -------------------------- POST /api/meeting/:id/checkout, checkoutToVersion
RowsOfVersion(id, version) ==
    SelectSeq(revisions, LAMBDA r : r.meeting_id = id /\ r.version = version)

\* rows.forEach: the path of each kind is taken from the last row of the kind.
RECURSIVE PathsFromRows(_, _)
PathsFromRows(rows, paths) ==
    IF rows = <<>> THEN paths
    ELSE PathsFromRows(Tail(rows),
            IF Head(rows).type \in {"transcript", "summary"}
            THEN [paths EXCEPT ![Head(rows).type] = Head(rows).file_path]
            ELSE paths)

\* The checkout without the test of the selected rows: the UPDATE is issued
\* for a version that has no revision as well.
CheckoutStartUnchecked(u, id, version) ==
    /\ hist.owner[id] # "none"
    /\ InFlight < MaxInFlight
    /\ LET code == OwnerCheck(u, id) IN
        IF code # 0
        THEN /\ resp' = Response("checkout", u, id, code, "error", NoBytes, 0)
             /\ UNCHANGED checkouts
        ELSE /\ checkouts' = Put(checkouts,
                  [id |-> id, user |-> u, version |-> version,
                   before |-> meetings[id].file_paths,
                   paths |-> PathsFromRows(RowsOfVersion(id, version),
                                           meetings[id].file_paths)])
             /\ resp' = NoResponse
    /\ UNCHANGED <<meetings, keys, revisions, files, bot, polling, ingests, procs,
                   edits, nextKey, temp, cryptoVars, pureVars, hist>>

\* getMeeting and the ownership check; checkoutToVersion selects the rows of
\* the version ("Version not found" when there is none, answered 500) and
\* reads the current file_paths (currentPaths, kept as `before`; newPaths is
\* `paths`).
CheckoutStart(u, id, version) ==
    /\ hist.owner[id] # "none"
    /\ InFlight < MaxInFlight
    /\ LET code == OwnerCheck(u, id) IN
        IF code # 0
        THEN /\ resp' = Response("checkout", u, id, code, "error", NoBytes, 0)
             /\ UNCHANGED checkouts
        ELSE IF RowsOfVersion(id, version) = <<>>
        THEN /\ resp' = Response("checkout", u, id, 500, "error", NoBytes, 0)
             /\ UNCHANGED checkouts
        ELSE /\ checkouts' = Put(checkouts,
                  [id |-> id, user |-> u, version |-> version,
                   before |-> meetings[id].file_paths,
                   paths |-> PathsFromRows(RowsOfVersion(id, version),
                                           meetings[id].file_paths)])
             /\ resp' = NoResponse
    /\ UNCHANGED <<meetings, keys, revisions, files, bot, polling, ingests, procs,
                   edits, nextKey, temp, cryptoVars, pureVars, hist>>

\* UPDATE meetings SET active_version = ?, file_paths = ? WHERE id = ?
CheckoutUpdate(t) ==
    /\ BagIn(t, checkouts)
    /\ checkouts' = Take(checkouts, t)
    /\ meetings' = IF meetings[t.id].exists
                   THEN [meetings EXCEPT ![t.id].active_version = t.version,
                                         ![t.id].file_paths = t.paths]
                   ELSE meetings
    /\ resp' = Response("checkout", t.user, t.id, 200, "switched", NoBytes, t.version)
    /\ UNCHANGED <<keys, revisions, files, bot, polling, ingests, procs, edits,
                   nextKey, temp, cryptoVars, pureVars, hist>>

\* ------------------------------------------------------------------- Next
\* ------------------------------------------------------- GET /api/meetings
\* getUserMeetings: the rows of the user.
getUserMeetings(u) == {id \in MeetingIds : meetings[id].exists /\ meetings[id].user_id = u}

\* rows.map(r => ({..., status: r.process_state})).
ListMeetings(u) ==
    /\ InFlight < MaxInFlight
    /\ resp' = [NoResponse EXCEPT !.op = "meetings", !.user = u, !.code = 200,
                    !.list = [id \in getUserMeetings(u) |-> meetings[id].process_state]]
    /\ UNCHANGED <<meetings, keys, revisions, files, bot, polling, ingests, procs,
                   edits, checkouts, nextKey, temp, cryptoVars, pureVars, hist>>

\* ------------------------------------ POST /api/revert/:id, revertToRevision
\* getRevision: the row with the id, or none.
getRevision(rid) == SelectSeq(revisions, LAMBDA r : r.id = rid)

\* The snapshot a revision row names, as plain bytes (NoBytes: no such file).
\* Every row is written with file_path 'internal_storage', and no snapshot
\* file is written with it.
Snapshot(row) == NoBytes

\* revert_to_revision(meeting_id, revision_id): only transcript revisions;
\* load the snapshot and hand its text to saveTranscriptRevision.  The value
\* is the text to save, or "none" when the revert throws.
revertToRevision(id, rid) ==
    LET rows == getRevision(rid) IN
        IF rows = <<>> THEN "none"
        ELSE IF rows[1].type # "transcript" THEN "none"
        ELSE Snapshot(rows[1]).text

\* The handler: 400 without revision_id (0), getMeeting and the ownership
\* check, then revertToRevision; what it throws is answered 500.  The answer
\* of a revert that saves is the save's {version}.
Revert(u, id, rid) ==
    /\ hist.owner[id] # "none"
    /\ InFlight < MaxInFlight
    /\ LET code == OwnerCheck(u, id)
           text == revertToRevision(id, rid) IN
        IF rid = 0
        THEN /\ resp' = Response("revert", u, id, 400, "error", NoBytes, 0)
             /\ UNCHANGED edits
        ELSE IF code # 0
        THEN /\ resp' = Response("revert", u, id, code, "error", NoBytes, 0)
             /\ UNCHANGED edits
        ELSE IF text = "none" \/ keys[id] = NoKey
        THEN /\ resp' = Response("revert", u, id, 500, "error", NoBytes, 0)
             /\ UNCHANGED edits
        ELSE /\ edits' = Put(edits, [pc |-> "latest", id |-> id, user |-> u,
                                     key |-> keys[id], text |-> text, version |-> 0])
             /\ resp' = NoResponse
    /\ UNCHANGED <<meetings, keys, revisions, files, bot, polling, ingests, procs,
                   checkouts, nextKey, temp, cryptoVars, pureVars, hist>>

\* The revision ids a client names: the ids of the rows, and 0 for none.
RevisionIds == {0} \cup {revisions[i].id : i \in DOMAIN revisions}

\* -------------------------------------------------------- POST /api/verify
\* findRevisionByHash: db.get gives the first row with the hash, of whatever
\* meeting and version.
findRevisionByHash(h) == SelectSeq(revisions, LAMBDA r : r.content_hash = h)

\* The exact lookup of a request {hash: h}.
Verify(u, h) ==
    /\ InFlight < MaxInFlight
    /\ LET rows == findRevisionByHash(h) IN
        resp' = IF rows # <<>>
                THEN [NoResponse EXCEPT !.op = "verify", !.user = u, !.code = 200,
                          !.status = "verified", !.id = rows[1].meeting_id,
                          !.version = rows[1].version, !.kind = rows[1].type]
                ELSE [NoResponse EXCEPT !.op = "verify", !.user = u, !.code = 200,
                          !.status = "mismatch"]
    /\ UNCHANGED <<meetings, keys, revisions, files, bot, polling, ingests, procs,
                   edits, checkouts, nextKey, temp, cryptoVars, pureVars, hist>>

\* The hashes a client sends: those of the texts it can type.
Hashes == {calculateHash(Bytes("raw", text)) : text \in Texts}

\* ------------------------------------------- app.use('/api', verifyToken)
\* Authorization headers: none, one without the 'Bearer ' prefix, a bearer
\* token verifyIdToken rejects, and one it accepts.
Tokens == {"absent", "malformed", "invalid", "valid"}

\* The status verifyToken answers, 0 when it calls next().
verifyToken(token) ==
    IF token \in {"absent", "malformed"} THEN 401
    ELSE IF token = "invalid" THEN 403
    ELSE 0

\* A request the middleware answers itself; the requests of the other
\* actions carry a valid token.
Unauthenticated(token) ==
    /\ verifyToken(token) # 0
    /\ resp' = [NoResponse EXCEPT !.op = "auth", !.user = token,
                    !.code = verifyToken(token), !.status = "error"]
    /\ UNCHANGED <<meetings, keys, revisions, files, bot, polling, ingests, procs,
                   edits, checkouts, nextKey, temp, cryptoVars, pureVars, hist>>

Versions == 1..2      \* version numbers a client asks to check out

Next ==
    \/ \E u \in Joiners : Join(u)
    \/ \E u \in Users, id \in MeetingIds : PollStart(u, id)
    \/ \E id \in MeetingIds : PollBotStatus(id)
    \/ \E id \in MeetingIds : PollProviderError(id)
    \/ \E t \in BagToSet(ingests) : IngestDownload(t)
    \/ \E t \in BagToSet(ingests) : IngestEncrypted(t)
    \/ \E t \in BagToSet(ingests) : IngestKeyStored(t)
    \/ \E t \in BagToSet(ingests) : IngestStateSet(t)
    \/ \E t \in BagToSet(ingests) : IngestFail(t)
    \/ \E t \in BagToSet(procs) : ProcGetKey(t)
    \/ \E t \in BagToSet(procs) : ProcWhisper(t)
    \/ \E t \in BagToSet(procs) : ProcSummary(t)
    \/ \E t \in BagToSet(procs) : ProcComplete(t)
    \/ \E t \in BagToSet(procs) : ProcError(t)
    \/ \E t \in BagToSet(procs) : ProcCrash(t)
    \/ \E u \in Users, id \in MeetingIds : Retry(u, id)
    \/ \E u \in Users, id \in MeetingIds : Delete(u, id)
    \/ \E u \in Users, id \in MeetingIds : Leave(u, id)
    \/ \E u \in Users, id \in MeetingIds, kind \in Kinds :
          secureDeliver(u, id, kind, ClientHeader)
    \/ \E u \in Users, id \in MeetingIds, text \in Texts :
          hist.edits < MaxEdits /\ EditStart(u, id, text)
    \/ \E t \in BagToSet(edits) : EditLatest(t)
    \/ \E t \in BagToSet(edits) : EditWrite(t)
    \/ \E t \in BagToSet(edits) : EditAdd(t)
    \/ \E u \in Users, id \in MeetingIds, v \in Versions : CheckoutStart(u, id, v)
    \/ \E t \in BagToSet(checkouts) : CheckoutUpdate(t)

Spec == Init /\ [][Next]_vars

\* ------------------------------------------- the server, one request at a time
\* The same handlers with every route of the API, taken up one after the
\* other: a request that changes state waits until nothing is in flight
\* (status polls and listings are taken up at any time).
MaxApiEdits == 2      \* POST /edit requests accepted in one behaviour of SpecApi

Idle == InFlight = 0

NextApi ==
    \/ \E u \in Joiners : Idle /\ Join(u)
    \/ \E u \in Users, id \in MeetingIds : PollStart(u, id)
    \/ \E id \in MeetingIds : PollBotStatus(id)
    \/ \E id \in MeetingIds : PollProviderError(id)
    \/ \E t \in BagToSet(ingests) : IngestDownload(t)
    \/ \E t \in BagToSet(ingests) : IngestEncrypted(t)
    \/ \E t \in BagToSet(ingests) : IngestKeyStored(t)
    \/ \E t \in BagToSet(ingests) : IngestStateSet(t)
    \/ \E t \in BagToSet(ingests) : IngestFail(t)
    \/ \E t \in BagToSet(procs) : ProcGetKey(t)
    \/ \E t \in BagToSet(procs) : ProcWhisper(t)
    \/ \E t \in BagToSet(procs) : ProcSummary(t)
    \/ \E t \in BagToSet(procs) : ProcComplete(t)
    \/ \E t \in BagToSet(procs) : ProcError(t)
    \/ \E t \in BagToSet(procs) : ProcCrash(t)
    \/ \E u \in Users, id \in MeetingIds : Idle /\ Retry(u, id)
    \/ \E u \in Users, id \in MeetingIds : Idle /\ Delete(u, id)
    \/ \E u \in Users, id \in MeetingIds : Idle /\ Leave(u, id)
    \/ \E u \in Users, id \in MeetingIds, kind \in Kinds, header \in PublicKeys :
          Idle /\ secureDeliver(u, id, kind, header)
    \/ \E u \in Users, id \in MeetingIds, text \in Texts :
          hist.edits < MaxApiEdits /\ Idle /\ EditStart(u, id, text)
    \/ \E t \in BagToSet(edits) : EditLatest(t)
    \/ \E t \in BagToSet(edits) : EditWrite(t)
    \/ \E t \in BagToSet(edits) : EditAdd(t)
    \/ \E u \in Users, id \in MeetingIds, v \in Versions : Idle /\ CheckoutStart(u, id, v)
    \/ \E t \in BagToSet(checkouts) : CheckoutUpdate(t)
    \/ \E u \in Users, id \in MeetingIds, rid \in RevisionIds : Idle /\ Revert(u, id, rid)
    \/ \E u \in Users : ListMeetings(u)
    \/ \E u \in Users, h \in Hashes : Idle /\ Verify(u, h)
    \/ \E token \in Tokens : Unauthenticated(token)

SpecApi == Init /\ [][NextApi]_vars

\* ---------------------------------------- crypto_utils.js: the key-wrap layer
MaxDraws == 4         \* crypto.randomBytes values drawn in one behaviour of SpecCrypto

RawKeys == {"k1", "k2"}     \* raw AES keys of meetings
FileIvs == {"iv1", "iv2"}   \* file IVs of meetings

\* buffer.toString('hex'): the bytes spelled in lower-case hex digits.
HexText(b) == [hex |-> b, spelling |-> "lower"]

\* Buffer.from(text, 'hex'): the bytes of the digits, in whichever case they
\* are spelled.
FromHex(t) == t.hex

\* Tag lengths decipher.setAuthTag accepts of a GCM decipher created without
\* authTagLength (createDecipheriv is given none).
GcmTagLengths == {4, 8, 12, 13, 14, 15, 16}

\* AES-256-GCM under the master key: the ciphertext of the data under the IV
\* and the 16-byte tag over IV and ciphertext.
GcmCiphertext(iv, data) == [gcm |-> data, iv |-> iv]
GcmTag(iv, ciphertext) == [mac |-> <<iv, ciphertext>>, len |-> 16]

\* protectKey with the 12-byte IV that randomBytes gave (the rnd-th value).
protectKey(rawKey, rnd) ==
    LET iv == [random |-> rnd] IN
        [encryptedBlob |-> HexText(GcmCiphertext(iv, rawKey)),
         iv |-> HexText(iv),
         authTag |-> HexText(GcmTag(iv, GcmCiphertext(iv, rawKey)))]

Throws == "throws"

\* An unprotectKey that never compares the tag.
unprotectKeyUnchecked(encryptedBlobHex, ivHex, authTagHex) ==
    FromHex(encryptedBlobHex).gcm

\* unprotectKey: decipher.final() throws unless the tag given, in its own
\* length, is the tag of the IV and the ciphertext.
unprotectKey(encryptedBlobHex, ivHex, authTagHex) ==
    LET iv == FromHex(ivHex)
        blob == FromHex(encryptedBlobHex)
        tag == FromHex(authTagHex) IN
        IF tag.len \in GcmTagLengths /\ tag.mac = GcmTag(iv, blob).mac
        THEN blob.gcm
        ELSE Throws

\* The row storeMeetingKey writes: wrapper IV and wrapped key packed as
\* "iv:key", the file IV in column iv, the tag in auth_tag.
KeyRowOf(meeting_id, rawKey, fileIv, rnd) ==
    LET p == protectKey(rawKey, rnd) IN
        [meeting_id |-> meeting_id,
         encrypted_key_blob |-> <<p.iv, p.encryptedBlob>>,
         iv |-> HexText(fileIv),
         auth_tag |-> p.authTag]

UnwrapError == KeyResult("Failed to unwrap key", "none", "none")

\* getMeetingKey on a row: null without a row; the packed column is split,
\* the key unwrapped, and whatever is thrown becomes 'Failed to unwrap key'.
getMeetingKey(row) ==
    IF row = NoRow THEN KeyResult("null", "none", "none")
    ELSE LET wrapperIv == row.encrypted_key_blob[1]
             encryptedKey == row.encrypted_key_blob[2]
             rawKey == unprotectKey(encryptedKey, wrapperIv, row.auth_tag) IN
         IF rawKey = Throws THEN UnwrapError
         ELSE KeyResult("none", rawKey, FromHex(row.iv))

\* storeMeetingKey(meeting_id, rawKey, fileIv): INSERT OR REPLACE of the row.
StoreKey(id, rawKey, fileIv) ==
    /\ drawn < MaxDraws
    /\ drawn' = drawn + 1
    /\ keyRow' = KeyRowOf(id, rawKey, fileIv, drawn + 1)
    /\ written' = [key |-> rawKey, iv |-> fileIv, row |-> keyRow']
    /\ UNCHANGED <<unwrapped, wire>>

\* getMeetingKey(meeting_id) resolved or rejected.
GetKey ==
    /\ keyRow # NoRow
    /\ unwrapped' = [row |-> keyRow, given |-> written, result |-> getMeetingKey(keyRow)]
    /\ UNCHANGED <<keyRow, written, wire, drawn>>

\* What whoever can write the database file can make of a stored hex column:
\* other bytes of the same length, the same digits in upper case, or the
\* leading digits only.
OtherIv == [random |-> 0]
OtherCiphertext(t) == [t EXCEPT !.hex.gcm = "forged"]
OtherWrapperIv(t) == [t EXCEPT !.hex = OtherIv]
OtherTag(t) == [t EXCEPT !.hex.mac = <<OtherIv, GcmCiphertext(OtherIv, "forged")>>]
UpperCase(t) == [t EXCEPT !.spelling = "upper"]
Leading(t, n) == [t EXCEPT !.hex.len = n]

Alterations(row) ==
    {[row EXCEPT !.encrypted_key_blob[2] = OtherCiphertext(@)],
     [row EXCEPT !.encrypted_key_blob[2] = UpperCase(@)],
     [row EXCEPT !.encrypted_key_blob[1] = OtherWrapperIv(@)],
     [row EXCEPT !.encrypted_key_blob[1] = UpperCase(@)],
     [row EXCEPT !.auth_tag = OtherTag(@)],
     [row EXCEPT !.auth_tag = UpperCase(@)],
     [row EXCEPT !.auth_tag = Leading(@, 4)]}

\* The stored row is altered outside the program.
Tamper ==
    /\ keyRow # NoRow
    /\ keyRow = written.row
    /\ keyRow' \in Alterations(keyRow)
    /\ UNCHANGED <<written, unwrapped, wire, drawn>>

\* ------------------------------- createEncryptionSetup: the transport layer
MaxDeliveries == 2    \* deliveries sent in one behaviour of SpecCrypto

PrivateKeyOf(pem) == [private |-> pem]
Plaintexts == {Mp3Bytes, Bytes("raw", "t1")}   \* artifacts as getArtifactStream gives them

\* crypto.randomBytes(n), the rnd-th value drawn.
randomBytes(n, rnd) == [random |-> rnd, len |-> n]

\* Buffer.concat
Concat(a, b) == [parts |-> <<a, b>>, len |-> a.len + b.len]

\* crypto.publicEncrypt with RSA_PKCS1_OAEP_PADDING and oaepHash sha256.
publicEncrypt(pem, data) == [oaep |-> "sha256", to |-> pem, data |-> data]

\* buffer.toString('base64')
Base64(b) == [base64 |-> b]

\* A createEncryptionSetup whose key and IV are drawn once, when the server starts.
createEncryptionSetupOnce(pem, rnd) ==
    [encryptedKeyHeader |->
        Base64(publicEncrypt(pem, Concat(randomBytes(32, 1), randomBytes(16, 2)))),
     cipher |-> [key |-> randomBytes(32, 1), iv |-> randomBytes(16, 2)]]

\* createEncryptionSetup, the values of randomBytes being the rnd-th and the
\* next: the header is base64 of RSA-OAEP(key || iv), the cipher AES-256-CBC.
createEncryptionSetup(pem, rnd) ==
    [encryptedKeyHeader |->
        Base64(publicEncrypt(pem, Concat(randomBytes(32, rnd), randomBytes(16, rnd + 1)))),
     cipher |-> [key |-> randomBytes(32, rnd), iv |-> randomBytes(16, rnd + 1)]]

\* clearStream.pipe(cipher): AES-256-CBC of the stream.
CipherText(cipher, plain) == [cbc |-> plain, key |-> cipher.key, iv |-> cipher.iv]

\* secureDeliver for a client key and an artifact that exist: the header
\* X-Encrypted-Key and the body as they are sent (the client and the
\* plaintext are kept as history).
Deliver(pem, plain) ==
    /\ Len(wire) < MaxDeliveries
    /\ drawn + 2 <= MaxDraws
    /\ drawn' = drawn + 2
    /\ LET setup == createEncryptionSetup(pem, drawn + 1) IN
        wire' = Append(wire, [header |-> setup.encryptedKeyHeader,
                              body |-> CipherText(setup.cipher, plain),
                              client |-> pem, plain |-> plain])
    /\ UNCHANGED <<keyRow, written, unwrapped>>

\* The client's side: base64 decoding, crypto.privateDecrypt (OAEP, sha256),
\* and AES-256-CBC decryption.
FromBase64(t) == t.base64

privateDecrypt(sk, c) ==
    IF c.to = sk.private /\ c.oaep = "sha256" THEN c.data
    ELSE [parts |-> <<>>, len |-> 0]

Decipher(key, iv, c) == IF c.key = key /\ c.iv = iv THEN c.cbc ELSE GarbledBytes

serverVars ==
    <<meetings, keys, revisions, files, bot, polling, ingests, procs, edits,
      checkouts, nextKey, temp, resp, hist>>

NextCrypto ==
    \/ \E id \in MeetingIds, rawKey \in RawKeys, fileIv \in FileIvs :
          StoreKey(id, rawKey, fileIv) /\ UNCHANGED <<serverVars, pureVars>>
    \/ GetKey /\ UNCHANGED <<serverVars, pureVars>>
    \/ Tamper /\ UNCHANGED <<serverVars, pureVars>>
    \/ \E pem \in ClientKeys, plain \in Plaintexts :
          Deliver(pem, plain) /\ UNCHANGED <<serverVars, pureVars>>

SpecCrypto == Init /\ [][NextCrypto]_vars

\* ------------------------------------- getBotStatus: the provider's answer
\* determineStatus: the explicit status, else the code of the last entry of
\* status_changes, else 'unknown'.
determineStatus(b) ==
    IF b.status # Null THEN b.status
    ELSE IF Len(b.status_changes) > 0 THEN b.status_changes[Len(b.status_changes)]
    ELSE "unknown"

\* The if / else-if chain over the shortcuts of a recording: the first key
\* that is present decides, whatever its download_url is.
RECURSIVE FirstShortcutUrl(_, _)
FirstShortcutUrl(shortcuts, i) ==
    IF i > Len(ShortcutKeys) THEN Null
    ELSE IF shortcuts[ShortcutKeys[i]].present
         THEN shortcuts[ShortcutKeys[i]].download_url
         ELSE FirstShortcutUrl(shortcuts, i + 1)

\* The URL getBotStatus selects: from the shortcuts of the last recording,
\* else the legacy field video_url.
SelectedUrl(b) ==
    LET latestRecording == b.recordings[Len(b.recordings)]
        audioUrl == IF Len(b.recordings) > 0 /\ latestRecording.has_shortcuts
                    THEN FirstShortcutUrl(latestRecording.media_shortcuts, 1)
                    ELSE Null
    IN  IF audioUrl = Null /\ b.video_url # Null THEN b.video_url ELSE audioUrl

getBotStatus(b) ==
    LET audioUrl == SelectedUrl(b)
        ready == audioUrl # Null
    IN  BotStatus(IF ready THEN "processed" ELSE "processing", ready, audioUrl,
                  determineStatus(b))

\* The bot objects asked about: with and without a status and a status log,
\* no recording, one recording with any shortcuts, or an older recording
\* before it; with and without the legacy video_url.
ShortcutValues(k) == {NoShortcut, Shortcut(Null), Shortcut(k)}
RecordingsGiven ==
    {<<>>, <<Recording(FALSE, NoShortcuts)>>}
        \cup {<<Recording(TRUE, s)>> :
                s \in {f \in [ShortcutKeySet -> {NoShortcut, Shortcut(Null)}
                                  \cup {Shortcut(k) : k \in ShortcutKeySet}] :
                         \A k \in ShortcutKeySet : f[k] \in ShortcutValues(k)}}
        \cup {<<Recording(TRUE, [k \in ShortcutKeySet |-> Shortcut(k)]),
                Recording(TRUE, NoShortcuts)>>}
BotObjects ==
    {BotObject(status, changes, recordings, video_url) :
        status \in {Null, "done"},
        changes \in {<<>>, <<"joining_call">>, <<"joining_call", "call_ended">>},
        recordings \in RecordingsGiven,
        video_url \in {Null, "video_url"}}

\* One call of getBotStatus.
GetBotStatus(b) ==
    /\ normalised' = [bot |-> b, answer |-> getBotStatus(b)]
    /\ UNCHANGED <<formatted, summarised, cryptoVars>>

\* The calls are independent of each other: one per behaviour.
NextProvider ==
    \E b \in BotObjects :
        normalised = NotNormalised /\ GetBotStatus(b) /\ UNCHANGED serverVars

SpecProvider == Init /\ [][NextProvider]_vars

\* --------------------------------------------- formatPEM on its own
\* A single line with header and footer, as an HTTP header carries it.
Flat(k) == <<Begin>> \o Base64Of(k) \o <<End>>
FlatSpaced(k) == <<Begin, Space>> \o Base64Of(k) \o <<Space, End>>

\* The texts formatPEM is given: each form of each key, with and without a
\* final newline, quotes and surrounding blanks; and texts holding no key.
PemForms(k) == {Standard(k), Literal(k), Headerless(k), Flat(k), FlatSpaced(k)}
PemTexts ==
    {NoHeader, GarbageHeader, <<Quote, Quote>>, <<Begin, End>>}
        \cup UNION {{t, t \o <<Newline>>, t \o <<Escaped>>,
                     Quoted(t), Quoted(t \o <<Newline>>), Quoted(t \o <<Escaped>>),
                     <<Space>> \o t \o <<Space>>, <<Space>> \o Quoted(t) \o <<Newline>>,
                     t \o <<Space>>, <<Newline>> \o t, <<Quote>> \o t} :
                        t \in UNION {PemForms(k) : k \in ClientKeys}}

\* One call of formatPEM.
FormatPEM(text) ==
    /\ formatted' = [text |-> text, pem |-> formatPEM(text).pem,
                     thrown |-> formatPEM(text).thrown, asked |-> TRUE]
    /\ UNCHANGED <<normalised, summarised, cryptoVars>>

\* The calls are independent of each other: one per behaviour.
NextPem ==
    \E text \in PemTexts :
        ~formatted.asked /\ FormatPEM(text) /\ UNCHANGED serverVars

SpecPem == Init /\ [][NextPem]_vars

\* ------------------------------------------------ editors at the same time
\* The ingest pipeline without its failures, and POST /edit taken up
\* whenever a handler is free: two saveTranscriptRevision calls of a meeting
\* may be in flight together.
NextEdit ==
    \/ \E u \in Joiners : Idle /\ Join(u)
    \/ \E u \in Users, id \in MeetingIds : PollStart(u, id)
    \/ \E id \in MeetingIds : PollBotStatus(id)
    \/ \E t \in BagToSet(ingests) : IngestDownload(t)
    \/ \E t \in BagToSet(ingests) : IngestEncrypted(t)
    \/ \E t \in BagToSet(ingests) : IngestKeyStored(t)
    \/ \E t \in BagToSet(ingests) : IngestStateSet(t)
    \/ \E t \in BagToSet(procs) : ProcGetKey(t)
    \/ \E t \in BagToSet(procs) : ProcWhisper(t)
    \/ \E t \in BagToSet(procs) : ProcSummary(t)
    \/ \E t \in BagToSet(procs) : ProcComplete(t)
    \/ \E u \in Users, id \in MeetingIds, text \in Texts :
          hist.edits < MaxApiEdits /\ EditStart(u, id, text)
    \/ \E t \in BagToSet(edits) : EditLatest(t)
    \/ \E t \in BagToSet(edits) : EditWrite(t)
    \/ \E t \in BagToSet(edits) : EditAdd(t)

SpecEdit == Init /\ [][NextEdit]_vars

\* ------------------------------------------------ the pipeline, scheduled
\* The ingest pipeline with retries and without deletions.  The event loop
\* runs every continuation whose awaited call has returned or failed, so the
\* steps of the pollers, of the ingest tasks and of the processing tasks are
\* taken eventually; requests are not (nobody has to send one).
PollStep == \E id \in MeetingIds : PollBotStatus(id) \/ PollProviderError(id)

IngestStep ==
    \E t \in BagToSet(ingests) :
        \/ IngestDownload(t)
        \/ IngestEncrypted(t)
        \/ IngestKeyStored(t)
        \/ IngestStateSet(t)
        \/ IngestFail(t)

ProcStep ==
    \E t \in BagToSet(procs) :
        \/ ProcGetKey(t)
        \/ ProcWhisper(t)
        \/ ProcSummary(t)
        \/ ProcComplete(t)
        \/ ProcError(t)
        \/ ProcCrash(t)

NextLive ==
    \/ \E u \in Joiners : Join(u)
    \/ \E u \in Users, id \in MeetingIds : PollStart(u, id)
    \/ \E u \in Users, id \in MeetingIds : Retry(u, id)
    \/ \E id \in MeetingIds : PollBotStatus(id)
    \/ \E id \in MeetingIds : PollProviderError(id)
    \/ \E t \in BagToSet(ingests) : IngestDownload(t)
    \/ \E t \in BagToSet(ingests) : IngestEncrypted(t)
    \/ \E t \in BagToSet(ingests) : IngestKeyStored(t)
    \/ \E t \in BagToSet(ingests) : IngestStateSet(t)
    \/ \E t \in BagToSet(ingests) : IngestFail(t)
    \/ \E t \in BagToSet(procs) : ProcGetKey(t)
    \/ \E t \in BagToSet(procs) : ProcWhisper(t)
    \/ \E t \in BagToSet(procs) : ProcSummary(t)
    \/ \E t \in BagToSet(procs) : ProcComplete(t)
    \/ \E t \in BagToSet(procs) : ProcError(t)
    \/ \E t \in BagToSet(procs) : ProcCrash(t)

SpecLive ==
    /\ Init
    /\ [][NextLive]_vars
    /\ WF_vars(PollStep)
    /\ WF_vars(IngestStep)
    /\ WF_vars(ProcStep)

\* --------------------------------------------- runSummary, the summarizer
\* What the summarization engine does with one request: it answers valid
\* JSON, answers text that is no JSON, ends with an error (exit code not 0,
\* HTTP status not OK), is not there (spawn 'error', connection refused), or
\* never answers.
EngineOutcomes == {"answer", "invalid json", "error status", "absent", "silent"}

MockSummary == "mock"    \* getMockSummary().summary

\* runSummary of unnamed/part_003 (fetch of the Ollama API): the request is
\* aborted after 120000 ms, and every error of the try block, the abort
\* included, is answered with the mock.
runSummaryApi(engine) ==
    IF engine = "answer" THEN SummaryAnswer(TRUE, SummaryText)
    ELSE SummaryAnswer(TRUE, MockSummary)

\* runSummary of nlp_local.js, the one pipeline_manager requires: the promise
\* is resolved by the child's 'close' (the mock when the code is not 0 or
\* the output is no JSON) and by its 'error' (the mock); no timer is set and
\* the child is never killed, so a child that never closes settles nothing.
runSummary(engine) ==
    IF engine = "answer" THEN SummaryAnswer(TRUE, SummaryText)
    ELSE IF engine \in {"invalid json", "error status", "absent"}
    THEN SummaryAnswer(TRUE, MockSummary)
    ELSE SummaryAnswer(FALSE, "none")

\* processMeeting, "5. Run NLP (Summary)" and "6. Encrypt Store Summary",
\* with the engine's behaviour: the task goes on when runSummary has settled
\* and else stays at the await.
ProcRunSummary(t, engine) ==
    /\ BagIn(t, procs)
    /\ t.pc = "summary"
    /\ LET answer == runSummary(engine) IN
        /\ summarised' = [id |-> t.id, engine |-> engine, answer |-> answer]
        /\ IF answer.settled
           THEN /\ files' = [files EXCEPT ![t.id]["summary"] =
                                File(t.key, SummaryJson(answer.summary))]
                /\ procs' = Put(Take(procs, t), [t EXCEPT !.pc = "complete"])
           ELSE /\ procs' = Put(Take(procs, t), [t EXCEPT !.pc = "awaitSummary"])
                /\ UNCHANGED files
    /\ resp' = NoResponse
    /\ UNCHANGED <<meetings, keys, revisions, bot, polling, ingests, edits,
                   checkouts, nextKey, temp, cryptoVars, normalised, formatted, hist>>

\* The ingest pipeline with the engine's behaviours at the summary step.
NextSummary ==
    \/ \E u \in Joiners : Idle /\ Join(u)
    \/ \E u \in Users, id \in MeetingIds : PollStart(u, id)
    \/ \E id \in MeetingIds : PollBotStatus(id)
    \/ \E t \in BagToSet(ingests) : IngestDownload(t)
    \/ \E t \in BagToSet(ingests) : IngestEncrypted(t)
    \/ \E t \in BagToSet(ingests) : IngestKeyStored(t)
    \/ \E t \in BagToSet(ingests) : IngestStateSet(t)
    \/ \E t \in BagToSet(procs) : ProcGetKey(t)
    \/ \E t \in BagToSet(procs) : ProcWhisper(t)
    \/ \E t \in BagToSet(procs), engine \in EngineOutcomes : ProcRunSummary(t, engine)
    \/ \E t \in BagToSet(procs) : ProcComplete(t)
    \/ \E u \in Users, id \in MeetingIds : Retry(u, id)

SpecSummary == Init /\ [][NextSummary]_vars

\* ================================================================== claims
InFlightFor(id) ==
    polling[id]
      + Cardinality({t \in BagToSet(ingests) : t.id = id})
      + Cardinality({t \in BagToSet(procs) : t.id = id})
      + Cardinality({t \in BagToSet(edits) : t.id = id})
      + Cardinality({t \in BagToSet(checkouts) : t.id = id})

RevisionKinds == {"transcript", "summary"}

\* C1: two concurrent status polls of one meeting that both see
\* audio_ready = true while the record says initializing dispatch exactly one
\* download/ingestion task: no meeting ever has two ingestions dispatched.
C1_OneIngestionPerMeeting ==
    \A id \in MeetingIds : hist.dispatched[id] <= 1

\* C2: once deleteMeeting(id) has completed (user delete or discard), no
\* later delivery of the audio, the transcript or the summary of id returns
\* artifact bytes.
C2_NoBytesAfterDelete ==
    (resp.op \in Kinds /\ resp.after_delete) => resp.bytes = NoBytes

\* C3: every meeting-scoped request by an authenticated user who is not the
\* owner of the (existing) meeting is answered 403 and returns no data.
C3_NonOwnerRejected ==
    (/\ resp.op \notin {"none", "join"}
     /\ meetings[resp.id].exists
     /\ resp.user # meetings[resp.id].user_id)
        => (resp.code = 403 /\ resp.bytes = NoBytes)

\* C4: a status poll that observes a terminal raw status with audio_ready =
\* false answers "discarded" and deletes the meeting; from then on the
\* meeting row, its revisions and its key record are absent, and a poll
\* answered later finds no meeting (404; a handler that was already waiting
\* on the provider answers "discarded" again, or 500 when the provider fails).
C4_DiscardAnswered ==
    \A id \in MeetingIds :
        (/\ polling'[id] = polling[id] - 1
         /\ resp'.op = "status" /\ resp'.code = 200
         /\ bot'[id] = "dead")
            => (resp'.status = "discarded" /\ hist'.discarded[id])

C4_DiscardedIsAbsent ==
    \A id \in MeetingIds :
        hist.discarded[id] =>
            /\ ~meetings[id].exists
            /\ keys[id] = NoKey
            /\ \A kind \in RevisionKinds : RevisionsOf(id, kind) = <<>>
            /\ (resp.op = "status" /\ resp.id = id) =>
                  (resp.status = "discarded" \/ resp.code \in {404, 500})

C5_VersionsGapFree ==
    \A id \in MeetingIds, kind \in RevisionKinds :
        LET rows == RevisionsOf(id, kind) IN
            /\ VersionsOf(id, kind) = 1..Len(rows)
            /\ \A i, j \in DOMAIN rows : rows[i].version = rows[j].version => i = j

\* The meaningful text of a head blob: the text field of a transcript, the
\* summary field of a summary (for a head that holds bare text, the text).
MeaningfulText(b) == Bytes("raw", b.text)

\* C6: when processing or an edit has finished, the SHA-256 of the meaningful
\* text of the head transcript (summary) equals the content hash of the
\* highest-version transcript (summary) revision of the meeting.
C6_HeadHashIsLatestRevision ==
    \A id \in MeetingIds, kind \in RevisionKinds :
        (/\ meetings[id].exists
         /\ meetings[id].process_state = "completed"
         /\ InFlightFor(id) = 0
         /\ HeadFile(id, kind) # NoFile)
            => \E i \in DOMAIN revisions :
                  /\ revisions[i].meeting_id = id
                  /\ revisions[i].type = kind
                  /\ revisions[i].version = getLatestVersion(id, kind)
                  /\ revisions[i].content_hash =
                        calculateHash(MeaningfulText(HeadFile(id, kind).plain))

\* The content of a revision: the bytes its content_hash was taken over.
ContentOf(row) == row.content_hash.sha256

\* C7: when a checkout to version V has been answered, a reader of the head
\* transcript obtains the content of version V (so after checkout(V) and
\* checkout(W) the content of W), and the audio path of the meeting is what
\* it was when the checkout began.  (Checked for a checkout that ends with no
\* other handler or task of the meeting in flight.)
C7_CheckoutStep ==
    \A t \in BagToSet(checkouts) :
        (/\ checkouts' = Take(checkouts, t)
         /\ resp'.op = "checkout" /\ resp'.code = 200
         /\ meetings'[t.id].exists
         /\ InFlightFor(t.id)' = 0)
            => /\ \A i \in DOMAIN revisions' :
                    (/\ revisions'[i].meeting_id = t.id
                     /\ revisions'[i].type = "transcript"
                     /\ revisions'[i].version = t.version)
                        => getArtifactStream(t.id, "transcript")'.bytes
                              = ContentOf(revisions'[i])
               /\ meetings'[t.id].file_paths["audio"] = t.before["audio"]

C7_CheckoutReadsVersion == [][C7_CheckoutStep]_vars

\* C8 (as stated): every meeting whose process_state is not initializing has
\* a key record.
C8_KeyBeyondInitializing ==
    \A id \in MeetingIds :
        (meetings[id].exists /\ meetings[id].process_state # "initializing")
            => keys[id] # NoKey

\* C8 (amended): every meeting whose process_state is downloaded or completed
\* has exactly one key record (the table holds at most one row per meeting).
C8_KeyOnceDownloaded ==
    \A id \in MeetingIds :
        (meetings[id].exists /\ meetings[id].process_state \in {"downloaded", "completed"})
            => keys[id] # NoKey

C8_CompletedWithKey ==
    \E id \in MeetingIds :
        /\ meetings[id].exists
        /\ meetings[id].process_state = "completed"
        /\ keys[id] # NoKey

\* C9: once a key record exists for a meeting, it does not change for as long
\* as the meeting exists.
C9_KeyStep ==
    \A id \in MeetingIds :
        (meetings[id].exists /\ meetings'[id].exists /\ keys[id] # NoKey)
            => keys'[id] = keys[id]

C9_KeyRecordImmutable == [][C9_KeyStep]_vars

\* The transitions of process_state the state machine allows.
AllowedTransitions ==
    {<<"initializing", "downloading">>, <<"downloading", "downloaded">>,
     <<"downloaded", "transcribing">>, <<"transcribing", "completed">>}
    \cup {<<s, "failed">> : s \in {"downloading", "downloaded", "transcribing"}}
    \cup {<<s, "transcribing">> : s \in ProcessStates \ {"initializing"}}

\* C10: every change of a meeting's process_state is a transition of the
\* state machine, or the removal of the meeting.
C10_TransitionStep ==
    \A id \in MeetingIds :
        (meetings[id].exists /\ meetings'[id].exists
            /\ meetings'[id].process_state # meetings[id].process_state)
            => <<meetings[id].process_state, meetings'[id].process_state>>
                  \in AllowedTransitions

C10_StateMachine == [][C10_TransitionStep]_vars

\* The head artifacts a processMeeting run has written when it stands at pc.
ArtifactsOfRun(t) ==
    CASE t.pc = "summary" -> {"transcript"}
      [] t.pc = "complete" -> {"transcript", "summary"}
      [] OTHER -> {}

\* C11: when processMeeting catches an exception the meeting's process_state
\* becomes failed, and file_paths (what the status answer of the failed
\* meeting lists as artifacts) advertises no artifact the failed run wrote.
C11_FailureStep ==
    \A t \in BagToSet(procs) :
        ((ProcError(t) \/ (ProcGetKey(t) /\ procs' = Take(procs, t)))
            /\ meetings[t.id].exists)
            => /\ meetings'[t.id].process_state = "failed"
               /\ \A k \in ArtifactsOfRun(t) :
                     meetings'[t.id].file_paths[k] # CompletedPaths[k]

C11_FailedAdvertisesNothing == [][C11_FailureStep]_vars

\* C18: whenever no transcription of a meeting is running (every
\* processMeeting run of it has finished, in completed or in failed, or has
\* passed the transcriber), the decrypted temp audio of the meeting does not
\* exist.
C18_NoTempAudioLeft ==
    \A id \in MeetingIds :
        (\A t \in BagToSet(procs) : ~(t.id = id /\ t.pc = "whisper")) => ~temp[id]

\* The rows one step appends to the revision log.
NewRows == SubSeq(revisions', Len(revisions) + 1, Len(revisions'))

RowsOfKind(rows, id, version, type) ==
    {i \in DOMAIN rows : /\ rows[i].meeting_id = id
                         /\ rows[i].version = version
                         /\ rows[i].type = type}

C13_SaveStep ==
    \A t \in BagToSet(edits) :
        EditAdd(t) =>
            /\ Len(NewRows) = 2
            /\ Cardinality(RowsOfKind(NewRows, t.id, t.version, "transcript")) = 1
            /\ Cardinality(RowsOfKind(NewRows, t.id, t.version, "summary")) = 1

\* C13: every successful save_transcript_revision appends exactly one
\* transcript revision and exactly one summary revision, both with the
\* version the save answers.
C13_SaveAppendsBothKinds == [][C13_SaveStep]_vars

\* A revert the handler must carry out: the owner names a transcript
\* revision of the meeting.
RevertibleBy(u, id, rid) ==
    /\ OwnerCheck(u, id) = 0
    /\ \E i \in DOMAIN revisions : /\ revisions[i].id = rid
                                   /\ revisions[i].meeting_id = id
                                   /\ revisions[i].type = "transcript"

C12_RevertStep ==
    \A u \in Users, id \in MeetingIds, rid \in RevisionIds :
        (Revert(u, id, rid) /\ RevertibleBy(u, id, rid))
            => \E t \in BagToSet(edits') :
                  /\ t.id = id
                  /\ t.pc = "latest"
                  /\ \E i \in DOMAIN revisions :
                        /\ revisions[i].id = rid
                        /\ calculateHash(Bytes("raw", t.text)) = revisions[i].content_hash

\* The log only grows, except that a meeting's deletion removes its rows.
C12_LogStep ==
    \/ /\ Len(revisions') >= Len(revisions)
       /\ SubSeq(revisions', 1, Len(revisions)) = revisions
    \/ \E id \in MeetingIds : /\ ~meetings'[id].exists
                              /\ revisions' = RevisionsAfterDelete(id)

\* C12: a revert to transcript revision M of a meeting whose latest version
\* is N saves a new revision N+1 with the content of M (the handler starts
\* the save of M's content, which appends version N+1); the revisions that
\* exist stay as they are, and rows leave the log only with their meeting.
C12_RevertAppendsCopy == [][C12_RevertStep /\ C12_LogStep]_vars

C12_LogOnlyGrows == [][C12_LogStep]_vars

NonInitial == ProcessStates \ {"initializing"}

C15_StatusStep ==
    \A u \in Users, id \in MeetingIds :
        (/\ resp'.op = "status"
         /\ PollStart(u, id)
         /\ OwnerCheck(u, id) = 0
         /\ meetings[id].process_state \in NonInitial)
            => /\ resp'.code = 200
               /\ resp'.status = IF meetings[id].process_state = "completed"
                                 THEN "complete"
                                 ELSE meetings[id].process_state

C15_ListStep ==
    \A u \in Users :
        (resp'.op = "meetings" /\ ListMeetings(u))
            => \A id \in MeetingIds :
                  (OwnerCheck(u, id) = 0 /\ meetings[id].process_state \in NonInitial)
                      => /\ id \in DOMAIN resp'.list
                         /\ resp'.list[id] = meetings[id].process_state

\* C15: for a completed meeting GET /status/:id answers status "complete"
\* while GET /meetings lists the meeting with status "completed"; in every
\* other non-initial state both answer the raw process state.
C15_StatusWording == [][C15_StatusStep /\ C15_ListStep]_vars

\* A status answer 'complete' has been given for a completed meeting.
C15_CompleteAnswered ==
    /\ resp.op = "status"
    /\ resp.status = "complete"
    /\ meetings[resp.id].process_state = "completed"

\* The revisions an edit has answered {version, hash} for: the rows whose
\* hash is that of a typed text (processMeeting hashes the transcript JSON).
EditRows == {i \in DOMAIN revisions : revisions[i].content_hash \in Hashes}

C14_VerifyStep ==
    \A u \in Users, h \in Hashes :
        (resp'.op = "verify" /\ Verify(u, h))
            => \A i \in EditRows :
                  revisions[i].content_hash = h
                      => /\ resp'.status = "verified"
                         /\ resp'.id = revisions[i].meeting_id
                         /\ resp'.version = revisions[i].version
                         /\ resp'.kind = "transcript"

\* C14: when an edit of a meeting has answered {version: v, hash: H} (and
\* the meeting has not been deleted since), POST /verify with {hash: H}
\* answers verified with version v and type transcript, whatever other
\* revisions exist.
C14_VerifyReportsEdit == [][C14_VerifyStep]_vars

C16_AuthStep ==
    \A token \in Tokens \ {"valid"} :
        (resp'.op = "auth" /\ Unauthenticated(token))
            => /\ resp'.code = 401
               /\ UNCHANGED <<meetings, keys, revisions>>

\* C16: a request to an /api route with an absent or an invalid bearer token
\* is answered 401, and no route handler runs: meetings, keys and revisions
\* stay as they are.
C16_Unauthorized401 == [][C16_AuthStep]_vars

C17_DeliverStep ==
    \A u \in Users, id \in MeetingIds, kind \in Kinds :
        (/\ resp'.op = kind
         /\ secureDeliver(u, id, kind, GarbageHeader)
         /\ getArtifactStream(id, kind).code = 200)
            => /\ resp'.code = 400
               /\ resp'.bytes = NoBytes

\* C17: a delivery request for an artifact that exists whose X-Public-Key
\* value is no valid RSA public key is answered 400 (public-key format
\* error), and no artifact bytes are sent.
C17_BadPublicKey400 == [][C17_DeliverStep]_vars

\* The half of C17 about the bytes: such a request is sent no artifact bytes.
C17_BadPublicKeyNoBytes ==
    [][\A u \in Users, id \in MeetingIds, kind \in Kinds :
          (resp'.op = kind /\ secureDeliver(u, id, kind, GarbageHeader))
              => resp'.bytes = NoBytes]_vars

Asked == unwrapped.result.error # "not asked"

\* C19: getMeetingKey returns the raw key and the file IV that
\* storeMeetingKey was given when the stored record is intact, and fails
\* with the key-unwrap error, returning no key, when the wrapped blob, the
\* wrapper IV or the authentication tag of the record has been altered.
C19_IntactOrUnwrapError ==
    Asked =>
        IF unwrapped.row = unwrapped.given.row
        THEN unwrapped.result = KeyResult("none", unwrapped.given.key, unwrapped.given.iv)
        ELSE unwrapped.result = UnwrapError

\* The part of C19 that holds: an intact record gives back key and file IV,
\* and a record whose wrapped blob, wrapper IV or tag decodes to other bytes
\* of the same length is rejected.
SameLength(row) == FromHex(row.auth_tag).len = 16

DecodedColumns(row) ==
    <<FromHex(row.encrypted_key_blob[1]), FromHex(row.encrypted_key_blob[2]),
      FromHex(row.auth_tag)>>

C19_OtherBytesRejected ==
    Asked =>
        /\ unwrapped.row = unwrapped.given.row
              => unwrapped.result =
                    KeyResult("none", unwrapped.given.key, unwrapped.given.iv)
        /\ (/\ DecodedColumns(unwrapped.row) # DecodedColumns(unwrapped.given.row)
            /\ SameLength(unwrapped.row))
              => unwrapped.result = UnwrapError

SessionOf(d) == privateDecrypt(PrivateKeyOf(d.client), FromBase64(d.header))

C20_Opens(d) ==
    /\ DOMAIN d.header = {"base64"}
    /\ SessionOf(d).len = 48
    /\ SessionOf(d).parts[1].len = 32
    /\ SessionOf(d).parts[2].len = 16
    /\ Decipher(SessionOf(d).parts[1], SessionOf(d).parts[2], d.body) = d.plain

ProcsOf(id) == {t \in BagToSet(procs) : t.id = id}

\* C23: at no time are two processMeeting tasks running for one meeting (a
\* retry of a meeting that is being transcribed starts no second task).
C23_OneTranscriptionPerMeeting ==
    \A id \in MeetingIds :
        /\ Cardinality(ProcsOf(id)) <= 1
        /\ \A t \in ProcsOf(id) : procs[t] = 1

\* A task that is writing, or is between its writes of, the head blobs of id.
HeadWriters(id) ==
    {t \in ProcsOf(id) : t.pc \in {"whisper", "summary"}}
        \cup {t \in BagToSet(edits) : t.id = id /\ t.pc = "write"}

\* C24: a delivery of the transcript or the summary of a meeting streams
\* bytes only while the meeting's process_state is completed and no
\* processing run or edit is writing the head blobs of the meeting.
C24_ReadersAfterCompleted ==
    (resp.op \in {"transcript", "summary"} /\ resp.bytes # NoBytes)
        => /\ meetings[resp.id].process_state = "completed"
           /\ HeadWriters(resp.id) = {}

AudioComplete(id) == Decrypt(files[id]["audio"], keys[id]) = Mp3Bytes

C25_StartStep ==
    \A t \in BagToSet(ingests) :
        (IngestStateSet(t) /\ meetings[t.id].exists)
            => keys[t.id] # NoKey /\ AudioComplete(t.id)

C25_Downloaded ==
    \A id \in MeetingIds :
        meetings[id].process_state = "downloaded"
            => keys[id] # NoKey /\ AudioComplete(id)

\* C25: ingestRecording writes the encrypted audio completely, then stores
\* the key record, then sets downloaded and only then starts processing:
\* whenever a meeting is downloaded, and whenever the ingestion starts its
\* processing, the key record exists and the audio blob is the complete
\* ciphertext under that key.
C25_IngestOrder == [][C25_StartStep]_vars /\ []C25_Downloaded

\* C27: no state has a meeting row absent while a key record or a revision of
\* the meeting is present.
C27_NoOrphans ==
    \A id \in MeetingIds :
        ~meetings[id].exists
            => /\ keys[id] = NoKey
               /\ \A i \in DOMAIN revisions : revisions[i].meeting_id # id

C28_CheckoutStep ==
    \A t \in BagToSet(checkouts) :
        (CheckoutUpdate(t) /\ meetings[t.id].exists)
            => /\ meetings'[t.id].active_version = t.version
               /\ meetings'[t.id].file_paths["audio"] = meetings[t.id].file_paths["audio"]
               /\ meetings'[t.id].process_state = meetings[t.id].process_state
               /\ revisions' = revisions
               /\ keys' = keys

\* C28: a successful checkoutToVersion sets active_version to the version
\* and changes only the transcript and summary entries of file_paths: the
\* audio entry, process_state, the key record and the revisions stay as they
\* are.
C28_CheckoutFrame == [][C28_CheckoutStep]_vars

\* The rows processMeeting has inserted for a meeting.
ProcRows(id) ==
    {i \in DOMAIN revisions : /\ revisions[i].meeting_id = id
                              /\ revisions[i].type = "transcript"
                              /\ revisions[i].content_hash = ProcRevisionHash(Recognised)}

C29_RerunStep ==
    \A t \in BagToSet(procs) :
        (ProcWhisper(t) /\ ProcRows(t.id) # {})
            => /\ revisions'[Len(revisions')].version
                    = getLatestVersion(t.id, "transcript") + 1
               /\ (files[t.id]["transcript"].plain = TranscriptJson(Recognised)
                      => files'[t.id]["transcript"].plain = TranscriptJson(Recognised))

\* C29: a processMeeting run of a meeting that has been processed before
\* leaves the head transcript with the same content and inserts its revision
\* under the next version (latest + 1), not under version 1 again.
C29_RerunNextVersion == [][C29_RerunStep]_vars

\* ------------------------------------------------------------------- C30
LatestShortcuts(b) ==
    IF Len(b.recordings) > 0 /\ b.recordings[Len(b.recordings)].has_shortcuts
    THEN b.recordings[Len(b.recordings)].media_shortcuts
    ELSE NoShortcuts

\* The shortcut keys of the latest recording that yield a download URL.
Yielding(b) ==
    {i \in DOMAIN ShortcutKeys : LatestShortcuts(b)[ShortcutKeys[i]].download_url # Null}

C30_RawStatus ==
    LET b == normalised.bot IN
        /\ b.status # Null => normalised.answer.raw_status = b.status
        /\ (b.status = Null /\ Len(b.status_changes) > 0)
              => normalised.answer.raw_status = b.status_changes[Len(b.status_changes)]

C30_AudioReady ==
    normalised.answer.audio_ready <=> Yielding(normalised.bot) # {}

C30_FirstAvailable ==
    LET y == Yielding(normalised.bot) IN
        y # {} => normalised.answer.audio_url
                    = ShortcutKeys[CHOOSE i \in y : \A j \in y : i <= j]

\* C30: in every answer of getBotStatus, raw_status is the explicit status
\* when there is one and else the code of the last status change; audio_ready
\* is true exactly when some media shortcut of the recording yields a
\* download URL; and audio_url is the first such URL in the preference order.
C30_BotStatusNormalised ==
    normalised # NotNormalised
        => C30_RawStatus /\ C30_AudioReady /\ C30_FirstAvailable

\* ------------------------------------------------------------------- C21
\* The four forms of the claim: standard, escaped newlines, header-less
\* single line, and any of them in double quotes.
FourForms(k) ==
    {Standard(k), Literal(k), Headerless(k)}
        \cup {Quoted(t) : t \in {Standard(k), Literal(k), Headerless(k)}}

\* C21: whenever formatPEM was given a client's public key in one of the
\* four forms, it returned (without throwing) a PEM text from which that
\* same key is imported.
C21_SameKeyImported ==
    \A k \in ClientKeys :
        (formatted.asked /\ formatted.text \in FourForms(k))
            => ~formatted.thrown /\ importKey(formatted.pem) = k

\* A quoted key with escaped newlines, longer than one line, was formatted.
C21_QuotedLiteralFormatted ==
    /\ formatted.asked
    /\ formatted.text = Quoted(Literal("client2"))
    /\ importKey(formatted.pem) = "client2"

\* ------------------------------------------------------------------- C22
\* C22: the saves of a meeting are recorded under distinct versions: no two
\* revisions written by saveTranscriptRevision for the same meeting carry
\* the same version number.
C22_DistinctVersions ==
    \A i, j \in EditRows :
        (i # j /\ revisions[i].meeting_id = revisions[j].meeting_id)
            => revisions[i].version # revisions[j].version

\* ------------------------------------------------------------------- C26
Settled(id) == meetings[id].process_state \in {"completed", "failed"}

\* C26: a meeting that has entered downloading eventually reaches completed
\* or failed.
C26_EventuallySettled ==
    \A id \in MeetingIds :
        (meetings[id].process_state = "downloading") ~> Settled(id)

\* ------------------------------------------------------------------- C31
EngineProblems == {"silent", "error status", "invalid json", "absent"}

\* The adapter has answered every problem of the engine with the mock.
C31_MockOnProblem ==
    summarised.engine \in EngineProblems
        => summarised.answer = SummaryAnswer(TRUE, MockSummary)

\* The summary step never writes 'failed'.
C31_SummaryStep ==
    \A t \in BagToSet(procs), engine \in EngineOutcomes :
        ProcRunSummary(t, engine)
            => meetings'[t.id].process_state = meetings[t.id].process_state

\* C31: whatever the engine does (no answer in time, an error status, text
\* that is no JSON, no engine at all), runSummary returns the mock to
\* processMeeting, and the summary step never moves the meeting to failed.
C31_SummarizerNeverFails == []C31_MockOnProblem /\ [][C31_SummaryStep]_vars

\* ------------------------------------------------------------------- C32
\* The files of the storage vault that a file_paths entry of a kind may name.
VaultFiles(k) ==
    IF k = "audio" THEN {AudioPath}
    ELSE IF k = "transcript" THEN {TranscriptPath} ELSE {SummaryPath}

\* C32: in every state, each entry of a meeting's file_paths that is set
\* names a file inside the storage vault, also after a checkout.
C32_PathsInVault ==
    \A id \in MeetingIds, k \in Kinds :
        (meetings[id].exists /\ meetings[id].file_paths[k] # NoPathValue)
            => meetings[id].file_paths[k] \in VaultFiles(k)

\* ------------------------------------------------------------------- C33
C33_LocalStep ==
    \A u \in Users, id \in MeetingIds :
        (/\ meetings[id].exists
         /\ meetings[id].process_state # "initializing"
         /\ PollStart(u, id))
            => /\ polling' = polling
               /\ ingests' = ingests
               /\ bot' = bot
               /\ meetings' = meetings
               /\ keys' = keys
               /\ revisions' = revisions
               /\ hist'.dispatched = hist.dispatched
               /\ hist'.discarded = hist.discarded
               /\ meetings[id].user_id = u
                     => /\ resp'.code = 200
                        /\ resp'.status = uiStatus(meetings[id].process_state)

\* C33: a status poll that finds the meeting's stored process_state other
\* than initializing is answered from the record: the handler does not go
\* to the provider, discards nothing, dispatches no ingestion and leaves the
\* meeting, key and revision records as they are.
C33_LocalPollFrame == [][C33_LocalStep]_vars

\* A poll of a meeting that is transcribing was answered from the record.
C33_TranscribingAnswered ==
    /\ resp.op = "status"
    /\ resp.code = 200
    /\ resp.status = "transcribing"
    /\ meetings[resp.id].process_state = "transcribing"

\* ------------------------------------------------------------------- C34
C34_LeaveStep ==
    \A id \in MeetingIds :
        (/\ meetings[id].exists
         /\ meetings[id].process_state = "initializing"
         /\ meetings'[id] # meetings[id])
            => \/ ~meetings'[id].exists
               \/ /\ meetings'[id].process_state = "downloading"
                  /\ hist'.dispatched[id] = hist.dispatched[id] + 1
                  /\ resp'.op = "status"

\* C34: a meeting that is initializing leaves that state only by a status
\* poll that found the audio ready (to downloading) or by its deletion; no
\* other operation, POST /retry included, changes its process_state.
C34_InitializingLeftByPollOrDelete == [][C34_LeaveStep]_vars

\* ------------------------------------------------------------------- C35
\* C35: once deleteMeeting(id) has completed, no key record and no revision
\* row of id exists in any later state, whatever task of id was in flight
\* when it was deleted.
C35_NothingAfterDelete ==
    \A id \in MeetingIds :
        hist.deleted[id]
            => /\ keys[id] = NoKey
               /\ \A i \in DOMAIN revisions : revisions[i].meeting_id # id

\* ------------------------------------------------------------------- C36
\* C36: whenever a meeting has a key record and an audio blob, the blob
\* decrypts under the key and IV of that record to the ingested MP3.
C36_AudioUnderStoredKey ==
    \A id \in MeetingIds :
        (keys[id] # NoKey /\ files[id]["audio"] # NoFile)
            => Decrypt(files[id]["audio"], keys[id]) = Mp3Bytes

\* ------------------------------------------------------------------- C37
\* C37: in every state, a meeting whose process_state is completed has a
\* key record, and its file_paths has the three entries audio, transcript
\* and summary.
C37_CompletedHasKeyAndPaths ==
    \A id \in MeetingIds :
        (meetings[id].exists /\ meetings[id].process_state = "completed")
            => /\ keys[id] # NoKey
               /\ \A k \in Kinds : meetings[id].file_paths[k] # NoPathValue

\* ------------------------------------------------------------------- C38
C38_NoKeyStep ==
    \A u \in Users, id \in MeetingIds, text \in Texts :
        (/\ keys[id] = NoKey
         /\ OwnerCheck(u, id) = 0
         /\ EditStart(u, id, text))
            => /\ resp'.op = "edit"
               /\ resp'.code = 500
               /\ files' = files
               /\ revisions' = revisions
               /\ edits' = edits
               /\ meetings' = meetings

\* C38: an edit of a meeting that has no key record fails with an error
\* and changes nothing: no head transcript is written, no revision is
\* appended and no save is left in flight.
C38_EditWithoutKeyFails == [][C38_NoKeyStep]_vars

\* An edit of a meeting that was still waiting for its audio was refused.
C38_EditRefusedWithoutKey ==
    /\ resp.op = "edit"
    /\ resp.code = 500
    /\ keys[resp.id] = NoKey
    /\ meetings[resp.id].process_state \in {"initializing", "downloading"}

\* C39: a checkout of a version that has no revision of the meeting is
\* answered with an error (500, "Version not found") in the same step, and
\* that step leaves the meeting row (active_version, file_paths), the
\* revisions, the vault and the set of pending checkouts as they were.
C39_NotFoundStep ==
    \A u \in Users, id \in MeetingIds, v \in Versions :
        (/\ meetings[id].exists
         /\ RowsOfVersion(id, v) = <<>>
         /\ OwnerCheck(u, id) = 0
         /\ CheckoutStart(u, id, v))
        => /\ resp'.op = "checkout"
           /\ resp'.code = 500
           /\ resp'.status = "error"
           /\ meetings' = meetings
           /\ revisions' = revisions
           /\ files' = files
           /\ checkouts' = checkouts

C39_VersionNotFoundChangesNothing == [][C39_NotFoundStep]_vars

\* A checkout by the owner was refused with 500 while the meeting exists and
\* has revisions of some other version.
C39_CheckoutRefused ==
    /\ resp.op = "checkout"
    /\ resp.code = 500
    /\ meetings[resp.id].exists
    /\ meetings[resp.id].user_id = resp.user
    /\ \E v \in Versions : RowsOfVersion(resp.id, v) # <<>>
    /\ \E v \in Versions : RowsOfVersion(resp.id, v) = <<>>

====
